---- MODULE Spec2Model ----
(***************************************************************************)
(* A model of express-option-chain: the option stream (connection planner  *)
(* and health supervisor), the tick ingestor, the instrument index and the *)
(* option chain aggregator, all communicating through one redis store.     *)
(*                                                                         *)
(* The store is modelled by the variables ticks, option_token_info,        *)
(* valid_option_expiry and option_chain: a redis hash is a function whose  *)
(* DOMAIN is the set of fields present, hget of an absent field is None.   *)
(* Each subsystem has its own specification over the same variables:       *)
(*   Spec        OptionStream: constructor, start(), fix_processes, the    *)
(*               worker processes and the aggregation loop                 *)
(*   TickSpec    OptionChainTicker: on_ticks and the handle_ticks threads  *)
(*   IndexSpec   KiteInstrumentManager.process_instruments and a reader    *)
(*   ChainSpec   OptionChainCreator.create_option_chain                    *)
(***************************************************************************)
EXTENDS Integers, Sequences, FiniteSets, TLC

(***************************************************************************)
(* Program constants.  MAX_TOKENS_PER_WEBSOCKET is 3000 in the source; the *)
(* slicing arithmetic of start() is the same for every capacity, and the   *)
(* model runs it with a capacity of 2 so that token lists of a few tokens  *)
(* need several connections.                                               *)
(***************************************************************************)
MAX_TOKENS_PER_WEBSOCKET == 2
MAX_WEBSOCKET_CONNECTIONS == 3
MODE_FULL == "full"
MODE_QUOTE == "quote"

(***************************************************************************)
(* Bounds of the model.                                                    *)
(***************************************************************************)
\* longest trading_symbols list passed to the constructor
MaxSymbols == 2
\* worker terminations (degraded batch or closed connection) in one run
MaxTerminations == 2

Min(a, b) == IF a <= b THEN a ELSE b

\* math.ceil(a / b) for a >= 0, b > 0
Ceil(a, b) == (a + b - 1) \div b

\* the sequences over S of length at most n
SeqsUpTo(S, n) == UNION {[1..k -> S] : k \in 0..n}

\* Python's s[lo:hi] for 0 <= lo <= hi: both ends are clamped to len(s)
PySlice(s, lo, hi) == SubSeq(s, Min(lo, Len(s)) + 1, Min(hi, Len(s)))

RECURSIVE Concat(_)
\* the concatenation of a sequence of sequences
Concat(ss) == IF ss = <<>> THEN <<>> ELSE Head(ss) \o Concat(Tail(ss))

(***************************************************************************)
(* The instrument catalogs of the model: the records kite_client           *)
(* .instruments() returns, in the order it returns them.  A record keeps   *)
(* the fields process_instruments reads; an expiry date is written as the  *)
(* string get_expiry formats it to.                                        *)
(***************************************************************************)
Item(token, name, segment, expiry, strike, type) ==
  [instrument_token |-> token, exchange |-> "NFO", name |-> name,
   segment |-> segment, expiry |-> expiry, strike |-> strike,
   instrument_type |-> type]

E0 == "16-02-2023"
E1 == "23-02-2023"
E2 == "29-03-2023"
E3 == "31-12-2099"

CatalogToday ==
  << Item(4, "A", "NFO-OPT", E1, 110, "PE"),
     Item(2, "A", "NFO-OPT", E1, 100, "PE"),
     Item(1, "A", "NFO-OPT", E1, 100, "CE"),
     Item(9, "A", "NFO-FUT", E1, 0, "FUT"),
     Item(3, "A", "NFO-OPT", E1, 105, "CE"),
     Item(7, "B", "NFO-OPT", E1, 200, "PE"),
     Item(5, "A", "NFO-OPT", E2, 100, "CE"),
     Item(8, "B", "NFO-OPT", E1, 210, "CE"),
     Item(6, "B", "NFO-OPT", E1, 200, "CE") >>

CatalogYesterday ==
  << Item(10, "Z", "NFO-OPT", E0, 50, "CE"),
     Item(2, "A", "NFO-OPT", E1, 100, "PE"),
     Item(1, "A", "NFO-OPT", E1, 100, "CE") >>

Catalogs == {CatalogToday, CatalogYesterday}

(***************************************************************************)
(* KiteInstrumentManager.process_instruments: the maps it builds in memory *)
(* (lines 96-122) and the lists it stores (lines 129-134).                 *)
(***************************************************************************)
\* 'OPT' in segment
IsOption(segment) == segment \in {"NFO-OPT", "CDS-OPT", "MCX-OPT", "BCD-OPT"}

\* get_instrument_info(item), without exchange_token, trading_symbol,
\* tick_size and lot_size, which nothing in the model reads
get_instrument_info(item) ==
  [token |-> item.instrument_token, exchange |-> item.exchange,
   name |-> item.name, expiry |-> item.expiry,
   strike_price |-> item.strike, instrument_type |-> item.instrument_type,
   segment |-> item.segment]

\* f'{exchange}:{trading_symbol}'
SymbolKey(item) ==
  IF item.name = "A" THEN "NFO:A"
  ELSE IF item.name = "B" THEN "NFO:B"
  ELSE IF item.name = "Z" THEN "NFO:Z"
  ELSE "NFO:?"

OptionItems(instruments) == SelectSeq(instruments, LAMBDA item : IsOption(item.segment))

\* valid_expiry after the loop of lines 101-122
ValidExpiry(instruments) ==
  {OptionItems(instruments)[k].expiry : k \in 1..Len(OptionItems(instruments))}

RECURSIVE KeysInOrder(_, _)
\* the keys of trading_symbol_to_expiry_map in the order they were inserted
KeysInOrder(items, seen) ==
  IF items = <<>>
  THEN <<>>
  ELSE IF SymbolKey(Head(items)) \in seen
  THEN KeysInOrder(Tail(items), seen)
  ELSE <<SymbolKey(Head(items))>>
         \o KeysInOrder(Tail(items), seen \cup {SymbolKey(Head(items))})

\* a comparator that puts the put before the call of one strike
strike_price_comparator_puts_first(x1, x2) ==
  IF x1.strike_price = x2.strike_price
  THEN IF x1.instrument_type = "PE" THEN -1 ELSE 1
  ELSE x1.strike_price - x2.strike_price

\* strike_price_comparator(x1, x2)
strike_price_comparator(x1, x2) ==
  IF x1.strike_price = x2.strike_price
  THEN IF x1.instrument_type = "CE" THEN -1 ELSE 1
  ELSE x1.strike_price - x2.strike_price

RECURSIVE InsertByComparator(_, _)
\* x put before the first element it compares less than
InsertByComparator(sorted, x) ==
  IF sorted = <<>>
  THEN <<x>>
  ELSE IF strike_price_comparator(x, Head(sorted)) < 0
  THEN <<x>> \o sorted
  ELSE <<Head(sorted)>> \o InsertByComparator(Tail(sorted), x)

RECURSIVE sorted_by_comparator(_)
\* sorted(instrument_info_list, key=cmp_to_key(strike_price_comparator)):
\* a stable sort that only asks whether one element compares less than another
sorted_by_comparator(list) ==
  IF list = <<>>
  THEN <<>>
  ELSE InsertByComparator(sorted_by_comparator(SubSeq(list, 1, Len(list) - 1)),
                          list[Len(list)])

\* the instrument infos of one key and expiry, in catalog order
InfosOf(instruments, key, expiry) ==
  LET mine == SelectSeq(OptionItems(instruments),
                        LAMBDA item : SymbolKey(item) = key /\ item.expiry = expiry)
  IN [k \in 1..Len(mine) |-> get_instrument_info(mine[k])]

\* the value process_instruments stores under one key of option_token_info
ExpiryToInfoListMap(instruments, key) ==
  LET mine == SelectSeq(OptionItems(instruments), LAMBDA item : SymbolKey(item) = key)
      expiries == {mine[k].expiry : k \in 1..Len(mine)}
  IN [e \in expiries |-> sorted_by_comparator(InfosOf(instruments, key, e))]

\* option_token_info after a completed process_instruments
IndexOf(instruments) ==
  LET keys == KeysInOrder(OptionItems(instruments), {})
  IN [key \in {keys[k] : k \in 1..Len(keys)} |-> ExpiryToInfoListMap(instruments, key)]

\* the index of today's catalog, which the other specifications start from
CatalogIndex == IndexOf(CatalogToday)

CatalogExpiries == ValidExpiry(CatalogToday)

VARIABLES
  \* ---- the redis store
  ticks,                \* hash 'ticks': token -> tick payload
  option_token_info,    \* hash 'option_token_info': symbol -> expiry -> infos
  valid_option_expiry,  \* set 'valid_option_expiry'
  option_chain,         \* hash 'option_chain': symbol -> chain
  \* ---- OptionStream and its caller
  args,                 \* the constructor's and start()'s arguments
  self,                 \* the OptionStream object's fields
  caller_pc,            \* where the thread that calls OptionStream is
  procs,                \* pid_to_proc_map, in insertion order
  sup_i,                \* fix_processes: the next entry of the current pass
  all_process_running,  \* fix_processes: the flag of the current pass
  healthy_log,          \* entries logged 'is healthy' in the current pass
  agg_thread,           \* the thread create_option_chain runs on
  terminations,         \* worker terminations so far (bounded)
  \* ---- one OptionChainTicker (TickSpec)
  batches,              \* the batches on_ticks was called with, in order
  thread_pos,           \* per batch: ticks its handle_ticks thread has written
  ws_state,             \* the ticker's process: running, stopped, exited
  \* ---- KiteInstrumentManager.process_instruments and a reader (IndexSpec)
  refresh,              \* the refresh in progress: its place and its locals
  observed,             \* what the reader's last read of the index returned
  index_before,         \* the index in the store when the refresh began
  sup_thread,           \* the thread fix_processes runs on
  \* ---- a caller of OptionChainCreator (ChainSpec)
  last_call,            \* the last create_option_chain call and its outcome
  \* ---- a caller of OptionChainFetcher (FetchSpec)
  fetched,              \* the last get_option_chain(s) call and its result
  \* ---- a caller of KiteInstrumentFetcher.get_tokens (TokenSpec)
  ltp,                  \* hash 'ltp': NSE symbol -> last price
  resolved,             \* the last get_tokens call and its result
  \* ---- the KiteTicker of every worker (ConnectSpec)
  ws_calls,             \* per entry of pid_to_proc_map: the calls made on its kws
  \* ---- check_refresh_instruments and the refresh it starts (RefreshSpec)
  option_chain_config,  \* key 'option_chain_config': the last fetch time
  today,                \* the calendar date
  checked,              \* the last check_refresh_instruments call
  \* ---- one call of create_option_chain, read by read (PassSpec)
  agg_pass              \* its place, the infos left and the map built so far

storeVars == <<ticks, option_token_info, valid_option_expiry, option_chain>>
streamVars == <<args, self, caller_pc, procs, sup_i, all_process_running,
                healthy_log, agg_thread, terminations, sup_thread>>
tickVars == <<batches, thread_pos, ws_state>>
indexVars == <<refresh, observed, index_before>>
chainVars == <<last_call, fetched, agg_pass>>
tokenVars == <<ltp, resolved>>
connectVars == <<ws_calls>>
configVars == <<option_chain_config, today, checked>>
vars == <<storeVars, streamVars, tickVars, indexVars, chainVars, tokenVars, connectVars,
          configVars>>

(***************************************************************************)
(* helper.get_hash_value / redis hget: None for an absent field.           *)
(***************************************************************************)
HasKey(h, k) == k \in DOMAIN h

\* hset(h, k, v): the hash with field k set to v, every other field kept
HSet(h, k, v) == [x \in (DOMAIN h) \cup {k} |-> IF x = k THEN v ELSE h[x]]

(***************************************************************************)
(* KiteInstrumentFetcher.get_token_info_for_trading_symbol and get_tokens  *)
(* without criteria.  The result is [err, tokens]: err is "" or the name   *)
(* of the exception raised.                                                *)
(***************************************************************************)
get_token_info_for_trading_symbol(index, trading_symbol, expiry) ==
  IF ~HasKey(index, trading_symbol)
  THEN [err |-> "KiteInstrumentManagerException", tokens |-> <<>>]
  ELSE IF ~HasKey(index[trading_symbol], expiry)
  THEN [err |-> "KiteInstrumentManagerException", tokens |-> <<>>]
  ELSE LET list_of_options == index[trading_symbol][expiry]
       IN [err |-> "",
           tokens |-> [i \in 1..Len(list_of_options) |-> list_of_options[i].token]]

RECURSIVE get_tokens_skipping(_, _, _)
\* a get_tokens that leaves out a symbol whose tokens are not found
get_tokens_skipping(index, trading_symbols, expiry) ==
  IF trading_symbols = <<>>
  THEN [err |-> "", tokens |-> <<>>]
  ELSE [err |-> "",
        tokens |-> get_token_info_for_trading_symbol(index, Head(trading_symbols), expiry).tokens
                     \o get_tokens_skipping(index, Tail(trading_symbols), expiry).tokens]

RECURSIVE get_tokens(_, _, _)
get_tokens(index, trading_symbols, expiry) ==
  IF trading_symbols = <<>>
  THEN [err |-> "", tokens |-> <<>>]
  ELSE LET first == get_token_info_for_trading_symbol(index, Head(trading_symbols), expiry)
       IN IF first.err # ""
          THEN first
          ELSE LET rest == get_tokens(index, Tail(trading_symbols), expiry)
               IN IF rest.err # ""
                  THEN rest
                  ELSE [err |-> "", tokens |-> first.tokens \o rest.tokens]

(***************************************************************************)
(* A tick payload as the ticker delivers it.  last_price stands for every  *)
(* market field of the payload; a tick in a mode lower than full has no    *)
(* 'depth' (nor the open interest fields).                                 *)
(***************************************************************************)
Tick(token, mode, price) ==
  [instrument_token |-> token, mode |-> mode, last_price |-> price]

RECURSIVE handle_ticks(_, _)
\* OptionChainTicker.handle_ticks run to its end: one hset per tick, in order
handle_ticks(tks, batch) ==
  IF batch = <<>>
  THEN tks
  ELSE handle_ticks(HSet(tks, Head(batch).instrument_token, Head(batch)), Tail(batch))

(***************************************************************************)
(* OptionChainCreator.create_option_chain.                                 *)
(***************************************************************************)
Lower(instrument_type) ==
  IF instrument_type = "CE" THEN "ce"
  ELSE IF instrument_type = "PE" THEN "pe"
  ELSE instrument_type

\* a quote view that does not take the premium from the tick
get_option_detail_unpriced(tick) ==
  [premium |-> -1, instrument_token |-> tick.instrument_token]

\* get_option_detail(tick): the quote view built from one tick payload
get_option_detail(tick) ==
  [premium |-> tick.last_price, instrument_token |-> tick.instrument_token]

\* get_option_chain_base(token_info, expiry); the metadata fields that no
\* property reads (segment, lot_size, underlying_value, source) are left out
get_option_chain_base(token_info, expiry) ==
  [trading_symbol |-> token_info.name,
   exchange |-> token_info.exchange,
   expiry |-> [e \in {expiry} |-> <<>>]]

\* a faulty map update: every detail opens an entry of its own
MapAppend(m, strike, type, detail) ==
  Append(m, [strike_price |-> strike, sides |-> [t \in {type} |-> detail]])

\* strike_price_instrument_type_map[strike][type] = detail, on a defaultdict
\* kept as the sequence of its items in insertion order
MapSet(m, strike, type, detail) ==
  IF \E k \in 1..Len(m) : m[k].strike_price = strike
  THEN [k \in 1..Len(m) |->
         IF m[k].strike_price = strike
         THEN [m[k] EXCEPT !.sides = HSet(m[k].sides, type, detail)]
         ELSE m[k]]
  ELSE Append(m, [strike_price |-> strike,
                  sides |-> [t \in {type} |-> detail]])

RECURSIVE collect_ticks(_, _, _)
\* the loop of lines 94-108 over list_of_token_info: [err, map]
collect_ticks(list_of_token_info, tks, m) ==
  IF list_of_token_info = <<>>
  THEN [err |-> "", map |-> m]
  ELSE LET token_info == Head(list_of_token_info)
           rest == Tail(list_of_token_info)
       IN IF ~HasKey(tks, token_info.token)
          THEN collect_ticks(rest, tks, m)
          ELSE IF tks[token_info.token].mode # MODE_FULL
          THEN [err |-> "KeyError", map |-> m]
          ELSE collect_ticks(rest, tks,
                 MapSet(m, token_info.strike_price,
                        Lower(token_info.instrument_type),
                        get_option_detail(tks[token_info.token])))

\* lines 112-119: the option of one strike, with the sides that have a detail
make_option(item) ==
  IF HasKey(item.sides, "ce") /\ HasKey(item.sides, "pe")
  THEN [strike_price |-> item.strike_price,
        ce |-> item.sides["ce"], pe |-> item.sides["pe"]]
  ELSE IF HasKey(item.sides, "ce")
  THEN [strike_price |-> item.strike_price, ce |-> item.sides["ce"]]
  ELSE IF HasKey(item.sides, "pe")
  THEN [strike_price |-> item.strike_price, pe |-> item.sides["pe"]]
  ELSE [strike_price |-> item.strike_price]

RECURSIVE InsertByStrike(_, _)
\* x put after every element whose strike is not larger (a stable insertion)
InsertByStrike(sorted, x) ==
  IF sorted = <<>>
  THEN <<x>>
  ELSE IF Head(sorted).strike_price <= x.strike_price
  THEN <<Head(sorted)>> \o InsertByStrike(Tail(sorted), x)
  ELSE <<x>> \o sorted

RECURSIVE sorted_by_strike(_)
\* sorted(list_of_options, key=lambda x: x['strike_price'])
sorted_by_strike(list) ==
  IF list = <<>>
  THEN <<>>
  ELSE InsertByStrike(sorted_by_strike(SubSeq(list, 1, Len(list) - 1)),
                      list[Len(list)])

\* line 121-122: the record written under the symbol
chain_record(base, expiry, options) ==
  [base EXCEPT !.expiry = [e \in {expiry} |-> options]]

\* a faulty error path: the call raises instead of returning
raise_not_found(chains) ==
  [outcome |-> "NotFoundError", option_chain |-> chains]

\* lines 61-62, 64-65, 87-88: log.error(...) and return
log_error_and_return(chains) ==
  [outcome |-> "logged_error", option_chain |-> chains]

\* create_option_chain(trading_symbol, expiry) on a store: [outcome, option_chain]
\* outcome is "written" or "logged_error" (the call returns None), or the
\* name of the exception the call raises
create_option_chain(tks, index, chains, trading_symbol, expiry) ==
  IF ~HasKey(index, trading_symbol)
  THEN log_error_and_return(chains)
  ELSE IF ~HasKey(index[trading_symbol], expiry)
  THEN log_error_and_return(chains)
  ELSE IF index[trading_symbol][expiry] = <<>>
  THEN log_error_and_return(chains)
  ELSE LET list_of_token_info == index[trading_symbol][expiry]
           base == get_option_chain_base(Head(list_of_token_info), expiry)
           got == collect_ticks(list_of_token_info, tks, <<>>)
           list_of_options == [k \in 1..Len(got.map) |-> make_option(got.map[k])]
       IN IF got.err # ""
          THEN [outcome |-> got.err, option_chain |-> chains]
          ELSE [outcome |-> "written",
                option_chain |->
                  HSet(chains, trading_symbol,
                       chain_record(base, expiry, sorted_by_strike(list_of_options)))]

(***************************************************************************)
(* OptionStream.                                                           *)
(***************************************************************************)
ArgSymbols == {"NFO:A", "NFO:B", "NFO:C", "A"}
ArgExpiries == {E1, E2, E3}
ArgSecrets == {"ok", "not_a_dict", "no_api_key", "no_access_token"}

NoSelf ==
  [trading_symbols |-> <<>>, expiry |-> "", max_connections |-> 0,
   all_tokens |-> <<>>, error |-> ""]

\* KiteConnectionManager(secrets): secrets['api_key'], secrets['access_token']
KiteConnectionManager_init(secrets) ==
  IF secrets = "not_a_dict" THEN "TypeError"
  ELSE IF secrets \in {"no_api_key", "no_access_token"} THEN "KeyError"
  ELSE ""

\* the character test ':' not in trading_symbol
HasExchange(trading_symbol) == trading_symbol \in {"NFO:A", "NFO:B", "NFO:C"}

\* validate_and_fix: "" or the exception raised
validate_and_fix(secrets, trading_symbols, expiry, max_connections, all_tokens, index, valid_expiry) ==
  IF secrets # "ok"
  THEN "OptionStreamValidationException"
  ELSE IF Len(all_tokens) > max_connections * MAX_TOKENS_PER_WEBSOCKET
  THEN "OptionStreamValidationException"
  ELSE IF \E k \in 1..Len(trading_symbols) :
            \/ ~HasExchange(trading_symbols[k])
            \/ ~HasKey(index, trading_symbols[k])
  THEN "OptionStreamValidationException"
  ELSE IF expiry \notin valid_expiry
  THEN "OptionStreamValidationException"
  ELSE ""

\* OptionStream.__init__, with the instrument index of the store up to date
OptionStream_init ==
  /\ caller_pc = "new"
  /\ LET conn == KiteConnectionManager_init(args.secrets)
         got == get_tokens(option_token_info, args.trading_symbols, args.expiry)
         bad == validate_and_fix(args.secrets, args.trading_symbols, args.expiry,
                                 args.max_connections, got.tokens,
                                 option_token_info, valid_option_expiry)
         err == IF conn # "" THEN conn ELSE IF got.err # "" THEN got.err ELSE bad
     IN /\ self' = [trading_symbols |-> args.trading_symbols,
                    expiry |-> args.expiry,
                    max_connections |-> args.max_connections,
                    all_tokens |-> IF conn = "" /\ got.err = "" THEN got.tokens ELSE <<>>,
                    error |-> err]
        /\ caller_pc' = IF err = "" THEN "constructed" ELSE "raised"
  /\ UNCHANGED <<storeVars, args, procs, sup_i, all_process_running,
                 healthy_log, agg_thread, terminations>>
  /\ UNCHANGED <<tickVars, indexVars, chainVars, tokenVars, connectVars,
                 configVars, sup_thread>>

\* a faulty count: the division of line 155 rounded down
connection_count_floor(max_connections, all_tokens) ==
  Min(max_connections, Len(all_tokens) \div MAX_TOKENS_PER_WEBSOCKET)

\* line 154-155: the number of connections start() opens
connection_count(max_connections, all_tokens) ==
  Min(max_connections, Ceil(Len(all_tokens), MAX_TOKENS_PER_WEBSOCKET))

\* line 159-160: the tokens of connection i (counted from 0)
connection_tokens(all_tokens, i) ==
  PySlice(all_tokens, i * MAX_TOKENS_PER_WEBSOCKET, (i + 1) * MAX_TOKENS_PER_WEBSOCKET)

\* an entry of pid_to_proc_map: the process (alive; gen, the number of
\* processes this entry held before it; exit, the handler whose ws.stop()
\* ended it) and the tokens of its kws' ticker
NewProc(tokens) == [alive |-> TRUE, gen |-> 0, exit |-> "", tokens |-> tokens]

\* a faulty call: fix_processes handed to a thread when threaded is set
fix_processes_thread_by_flag(threaded) ==
  IF threaded THEN "background" ELSE "caller"

\* line 171: start() calls self.fix_processes(...) itself, whatever threaded is
fix_processes_thread(threaded) == "caller"

\* a faulty choice: create_option_chain always handed to a thread
create_option_chain_always_threaded(threaded) == "background"

\* lines 174-177: the thread create_option_chain runs on
create_option_chain_thread(threaded) ==
  IF threaded THEN "background" ELSE "caller"

\* start(), lines 154-171: the processes are created and started, and
\* fix_processes is entered
start ==
  /\ caller_pc = "constructed"
  /\ LET n == connection_count(self.max_connections, self.all_tokens)
     IN /\ self' = [self EXCEPT !.max_connections = n]
        /\ procs' = IF n <= 0 THEN <<>>
                    ELSE [i \in 1..n |-> NewProc(connection_tokens(self.all_tokens, i - 1))]
  /\ caller_pc' = "fix_sleep"
  /\ sup_thread' = fix_processes_thread(args.threaded)
  /\ UNCHANGED <<storeVars, args, sup_i, all_process_running, healthy_log,
                 agg_thread, terminations>>
  /\ UNCHANGED <<tickVars, indexVars, chainVars, tokenVars, connectVars,
                 configVars>>

\* fix_processes, lines 233-234: the wait that opens a pass
fix_processes_sleep ==
  /\ caller_pc = "fix_sleep"
  /\ caller_pc' = "fix_check"
  /\ sup_i' = 1
  /\ all_process_running' = TRUE
  /\ healthy_log' = {}
  /\ UNCHANGED <<storeVars, args, self, procs, agg_thread, terminations>>
  /\ UNCHANGED <<tickVars, indexVars, chainVars, tokenVars, connectVars,
                 configVars, sup_thread>>

\* lines 238-240: the process put in the place of a terminated one
replacement(entry) ==
  [alive |-> TRUE, gen |-> entry.gen + 1, exit |-> "", tokens |-> entry.tokens]

\* a faulty flag: a dead process does not clear it
flag_never_cleared(flag, alive) == flag

\* line 241 / 243: the flag after the check of one entry
flag_after_check(flag, alive) == IF alive THEN flag ELSE FALSE

\* a supervisor that starts a new process for every entry it checks
fix_processes_check_restarts_all ==
  /\ caller_pc = "fix_check"
  /\ sup_i <= Len(procs)
  /\ procs' = [procs EXCEPT ![sup_i] = replacement(procs[sup_i])]
  /\ all_process_running' = flag_after_check(all_process_running, procs[sup_i].alive)
  /\ healthy_log' = IF procs[sup_i].alive THEN healthy_log \cup {sup_i} ELSE healthy_log
  /\ sup_i' = sup_i + 1
  /\ UNCHANGED <<storeVars, args, self, caller_pc, agg_thread, terminations>>
  /\ UNCHANGED <<tickVars, indexVars, chainVars, tokenVars, connectVars, configVars,
                 sup_thread>>

\* fix_processes, lines 235-243: the check of one entry of the map
fix_processes_check ==
  /\ caller_pc = "fix_check"
  /\ sup_i <= Len(procs)
  /\ procs' = IF procs[sup_i].alive THEN procs
              ELSE [procs EXCEPT ![sup_i] = replacement(procs[sup_i])]
  /\ all_process_running' = flag_after_check(all_process_running, procs[sup_i].alive)
  /\ healthy_log' = IF procs[sup_i].alive THEN healthy_log \cup {sup_i} ELSE healthy_log
  /\ sup_i' = sup_i + 1
  /\ UNCHANGED <<storeVars, args, self, caller_pc, agg_thread, terminations>>
  /\ UNCHANGED <<tickVars, indexVars, chainVars, tokenVars, connectVars,
                 configVars, sup_thread>>

\* a faulty end of pass: fix_processes returns whatever the flag says
after_pass_return(flag) == "fix_returned"

\* lines 244-246: return when the flag is still set, else another pass
after_pass(flag) == IF flag THEN "fix_returned" ELSE "fix_sleep"

\* fix_processes, lines 244-246: the end of a pass
fix_processes_end ==
  /\ caller_pc = "fix_check"
  /\ sup_i > Len(procs)
  /\ caller_pc' = after_pass(all_process_running)
  /\ UNCHANGED <<storeVars, args, self, procs, sup_i, all_process_running,
                 healthy_log, agg_thread, terminations>>
  /\ UNCHANGED <<tickVars, indexVars, chainVars, tokenVars, connectVars,
                 configVars, sup_thread>>

\* start(), lines 174-177: create_option_chain on a thread or on the caller
start_create_option_chain ==
  /\ caller_pc = "fix_returned"
  /\ agg_thread' = create_option_chain_thread(args.threaded)
  /\ caller_pc' = IF args.threaded THEN "returned" ELSE "create_option_chain"
  /\ UNCHANGED <<storeVars, args, self, procs, sup_i, all_process_running,
                 healthy_log, terminations>>
  /\ UNCHANGED <<tickVars, indexVars, chainVars, tokenVars, connectVars,
                 configVars, sup_thread>>

RECURSIVE create_option_chains(_, _, _, _, _)
\* OptionStream.create_option_chain, lines 261-262: one pass over the symbols
create_option_chains(tks, index, chains, trading_symbols, expiry) ==
  IF trading_symbols = <<>>
  THEN [outcome |-> "written", option_chain |-> chains]
  ELSE LET one == create_option_chain(tks, index, chains, Head(trading_symbols), expiry)
       IN IF one.outcome = "KeyError"
          THEN one
          ELSE create_option_chains(tks, index, one.option_chain,
                                    Tail(trading_symbols), expiry)

\* OptionStream.create_option_chain: one pass of the loop that runs forever
aggregation_pass ==
  /\ agg_thread \in {"background", "caller"}
  /\ LET pass == create_option_chains(ticks, option_token_info, option_chain,
                                      self.trading_symbols, self.expiry)
     IN /\ option_chain' = pass.option_chain
        /\ agg_thread' = IF pass.outcome = "KeyError" THEN "raised" ELSE agg_thread
  /\ UNCHANGED <<ticks, option_token_info, valid_option_expiry, args, self,
                 caller_pc, procs, sup_i, all_process_running, healthy_log,
                 terminations>>
  /\ UNCHANGED <<tickVars, indexVars, chainVars, tokenVars, connectVars,
                 configVars, sup_thread>>

\* the batches the ticker of one connection may deliver in this specification:
\* a tick for every subscribed token, all in one mode (batches of mixed modes
\* are the subject of TickSpec)
StreamBatches(tokens) ==
  {[k \in 1..Len(tokens) |-> Tick(tokens[k], m, 0)] : m \in {MODE_FULL, MODE_QUOTE}}

\* a faulty mode check: every batch is taken as full
batch_always_full(batch) == TRUE

\* on_ticks line 59: the mode the batch reports
batch_is_full(batch) == batch[1].mode = MODE_FULL

\* OptionChainTicker.on_ticks in the process of entry i; the handle_ticks
\* thread of a full batch runs to its end
on_ticks(i, batch) ==
  /\ i \in 1..Len(procs)
  /\ procs[i].alive
  /\ IF batch_is_full(batch)
     THEN /\ ticks' = handle_ticks(ticks, batch)
          /\ UNCHANGED <<procs, terminations>>
     ELSE /\ terminations < MaxTerminations
          /\ procs' = [procs EXCEPT ![i].alive = FALSE, ![i].exit = "on_ticks"]
          /\ terminations' = terminations + 1
          /\ UNCHANGED ticks
  /\ UNCHANGED <<option_token_info, valid_option_expiry, option_chain, args, self,
                 caller_pc, sup_i, all_process_running, healthy_log, agg_thread>>
  /\ UNCHANGED <<tickVars, indexVars, chainVars, tokenVars, connectVars,
                 configVars, sup_thread>>

\* OptionChainTicker.on_close: the connection of entry i is closed for good
\* and its process ends
on_close(i) ==
  /\ i \in 1..Len(procs)
  /\ procs[i].alive
  /\ terminations < MaxTerminations
  /\ procs' = [procs EXCEPT ![i].alive = FALSE, ![i].exit = "on_close"]
  /\ terminations' = terminations + 1
  /\ UNCHANGED <<storeVars, args, self, caller_pc, sup_i, all_process_running,
                 healthy_log, agg_thread>>
  /\ UNCHANGED <<tickVars, indexVars, chainVars, tokenVars, connectVars,
                 configVars, sup_thread>>

\* the arguments the model passes: max_connections ranges from a negative
\* value to one more than the documented limit of 3
NoRefresh == [pc |-> "done", instruments |-> <<>>, keys |-> <<>>, count |-> 0]
NoRead == [op |-> "none"]
NoCall == [trading_symbol |-> "", expiry |-> "", outcome |-> "none"]
NoFetch == [op |-> "none"]
NoResolve == [op |-> "none"]
NoConfig == [set |-> FALSE]
NoCheck == [n |-> 0]
NoPass == [pc |-> "idle", n |-> 0]

Args ==
  [trading_symbols : SeqsUpTo(ArgSymbols, MaxSymbols),
   secrets : ArgSecrets,
   expiry : ArgExpiries,
   max_connections : (-1)..(MAX_WEBSOCKET_CONNECTIONS + 1),
   threaded : BOOLEAN]

Init ==
  /\ ticks = <<>>
  /\ option_token_info = CatalogIndex
  /\ valid_option_expiry = CatalogExpiries
  /\ option_chain = <<>>
  /\ args \in Args
  /\ self = NoSelf
  /\ caller_pc = "new"
  /\ procs = <<>>
  /\ sup_i = 1
  /\ all_process_running = TRUE
  /\ healthy_log = {}
  /\ agg_thread = "none"
  /\ terminations = 0
  /\ batches = <<>>
  /\ thread_pos = <<>>
  /\ ws_state = "running"
  /\ refresh = NoRefresh
  /\ observed = NoRead
  /\ index_before = [option_token_info |-> CatalogIndex,
                     valid_option_expiry |-> CatalogExpiries]
  /\ last_call = NoCall
  /\ sup_thread = "none"
  /\ fetched = NoFetch
  /\ ltp = <<>>
  /\ resolved = NoResolve
  /\ ws_calls = <<>>
  /\ option_chain_config = NoConfig
  /\ today = 1
  /\ checked = NoCheck
  /\ agg_pass = NoPass

Next ==
  \/ OptionStream_init
  \/ start
  \/ fix_processes_sleep
  \/ fix_processes_check
  \/ fix_processes_end
  \/ start_create_option_chain
  \/ aggregation_pass
  \/ \E i \in 1..Len(procs) : \E batch \in StreamBatches(procs[i].tokens) : on_ticks(i, batch)
  \/ \E i \in 1..Len(procs) : on_close(i)

Spec == Init /\ [][Next]_vars

(***************************************************************************)
(* TickSpec: one OptionChainTicker in its worker process.  on_ticks runs   *)
(* on the socket thread, one batch after the other; every full batch gets  *)
(* a handle_ticks thread of its own, and the threads run concurrently, one *)
(* hset at a time.  The last_price of a tick is the number of its batch.   *)
(* The timestamp fields that handle_ticks reformats are not modelled.      *)
(***************************************************************************)
\* batches on_ticks is called with in one run
MaxBatches == 3

TickerTokens == {1, 2}

\* the token orders of a batch: one tick, or a tick for each token
BatchTokens == {<<1>>, <<2>>, <<1, 2>>}

\* the batches the ticker may deliver as batch number n
TickerBatches(n) ==
  UNION {{[k \in 1..Len(toks) |-> Tick(toks[k], modes[k], n)] :
            modes \in [1..Len(toks) -> {MODE_FULL, MODE_QUOTE}]} :
         toks \in BatchTokens}

\* OptionChainTicker.on_ticks: ws.stop() on a batch that reports a mode other
\* than full, a handle_ticks thread for the batch otherwise
ticker_on_ticks(batch) ==
  /\ ws_state = "running"
  /\ Len(batches) < MaxBatches
  /\ batches' = Append(batches, batch)
  /\ thread_pos' = Append(thread_pos, 0)
  /\ ws_state' = IF batch_is_full(batch) THEN ws_state ELSE "stopped"
  /\ UNCHANGED <<storeVars, streamVars, indexVars, chainVars, tokenVars, connectVars,
                 configVars>>

\* one turn of the loop of handle_ticks in the thread of batch k: the hset
\* of the next tick of the batch
handle_ticks_step(k) ==
  /\ k \in 1..Len(batches)
  /\ ws_state # "exited"
  /\ batch_is_full(batches[k])
  /\ thread_pos[k] < Len(batches[k])
  /\ LET tick == batches[k][thread_pos[k] + 1]
     IN ticks' = HSet(ticks, tick.instrument_token, tick)
  /\ thread_pos' = [thread_pos EXCEPT ![k] = @ + 1]
  /\ UNCHANGED <<option_token_info, valid_option_expiry, option_chain,
                 batches, ws_state, streamVars, indexVars, chainVars, tokenVars, connectVars,
                 configVars>>

\* after ws.stop() kws.connect returns and the process ends, and its daemon
\* threads with it
ticker_process_exit ==
  /\ ws_state = "stopped"
  /\ ws_state' = "exited"
  /\ UNCHANGED <<storeVars, batches, thread_pos, streamVars, indexVars, chainVars, tokenVars, connectVars,
                 configVars>>

TickInit ==
  /\ ticks = <<>>
  /\ option_token_info = CatalogIndex
  /\ valid_option_expiry = CatalogExpiries
  /\ option_chain = <<>>
  /\ args = [trading_symbols |-> <<"NFO:A">>, secrets |-> "ok", expiry |-> E1,
             max_connections |-> 1, threaded |-> TRUE]
  /\ self = NoSelf
  /\ caller_pc = "fix_sleep"
  /\ procs = <<NewProc(<<1, 2>>)>>
  /\ sup_i = 1
  /\ all_process_running = TRUE
  /\ healthy_log = {}
  /\ agg_thread = "none"
  /\ terminations = 0
  /\ batches = <<>>
  /\ thread_pos = <<>>
  /\ ws_state = "running"
  /\ refresh = NoRefresh
  /\ observed = NoRead
  /\ index_before = [option_token_info |-> CatalogIndex,
                     valid_option_expiry |-> CatalogExpiries]
  /\ last_call = NoCall
  /\ sup_thread = "none"
  /\ fetched = NoFetch
  /\ ltp = <<>>
  /\ resolved = NoResolve
  /\ ws_calls = <<>>
  /\ option_chain_config = NoConfig
  /\ today = 1
  /\ checked = NoCheck
  /\ agg_pass = NoPass

TickNext ==
  \/ \E batch \in TickerBatches(Len(batches) + 1) : ticker_on_ticks(batch)
  \/ \E k \in 1..Len(batches) : handle_ticks_step(k)
  \/ ticker_process_exit

TickSpec == TickInit /\ [][TickNext]_vars

(***************************************************************************)
(* IndexSpec: KiteInstrumentManager.process_instruments writing the index  *)
(* to the store, one redis command at a time, while another client of the  *)
(* store reads the index.                                                  *)
(***************************************************************************)
\* refreshes in one run
MaxRefreshes == 2

\* KiteInstrumentManager(secrets, db).process_instruments() begins: the
\* instruments are fetched and the maps of lines 96-122 are built
process_instruments_begin(instruments) ==
  /\ refresh.pc = "done"
  /\ refresh.count < MaxRefreshes
  /\ refresh' = [pc |-> "delete_valid_option_expiry",
                 instruments |-> instruments,
                 keys |-> KeysInOrder(OptionItems(instruments), {}),
                 count |-> refresh.count + 1]
  /\ index_before' = [option_token_info |-> option_token_info,
                      valid_option_expiry |-> valid_option_expiry]
  /\ UNCHANGED <<storeVars, observed, streamVars, tickVars, chainVars, tokenVars, connectVars,
                 configVars>>

\* line 125: db.delete('valid_option_expiry')
process_instruments_delete_expiry ==
  /\ refresh.pc = "delete_valid_option_expiry"
  /\ valid_option_expiry' = {}
  /\ refresh' = [refresh EXCEPT !.pc = "sadd"]
  /\ UNCHANGED <<ticks, option_token_info, option_chain, observed, index_before,
                 streamVars, tickVars, chainVars, tokenVars, connectVars,
                 configVars>>

\* line 126: db.sadd('valid_option_expiry', *valid_expiry)
process_instruments_sadd ==
  /\ refresh.pc = "sadd"
  /\ valid_option_expiry' = valid_option_expiry \cup ValidExpiry(refresh.instruments)
  /\ refresh' = [refresh EXCEPT !.pc = "delete_option_token_info"]
  /\ UNCHANGED <<ticks, option_token_info, option_chain, observed, index_before,
                 streamVars, tickVars, chainVars, tokenVars, connectVars,
                 configVars>>

\* a refresh that patches the stored index instead of deleting it first
process_instruments_keep_info ==
  /\ refresh.pc = "delete_option_token_info"
  /\ refresh' = [refresh EXCEPT !.pc = IF refresh.keys = <<>> THEN "done" ELSE "hset"]
  /\ UNCHANGED <<storeVars, observed, index_before, streamVars, tickVars, chainVars,
                 tokenVars, connectVars,
                 configVars>>

\* line 128: db.delete('option_token_info')
process_instruments_delete_info ==
  /\ refresh.pc = "delete_option_token_info"
  /\ option_token_info' = <<>>
  /\ refresh' = [refresh EXCEPT !.pc = IF refresh.keys = <<>> THEN "done" ELSE "hset"]
  /\ UNCHANGED <<ticks, valid_option_expiry, option_chain, observed, index_before,
                 streamVars, tickVars, chainVars, tokenVars, connectVars,
                 configVars>>

\* lines 129-134: the lists of the next key are sorted and stored
process_instruments_hset ==
  /\ refresh.pc = "hset"
  /\ LET key == Head(refresh.keys)
     IN option_token_info' =
          HSet(option_token_info, key, ExpiryToInfoListMap(refresh.instruments, key))
  /\ refresh' = [refresh EXCEPT !.keys = Tail(refresh.keys),
                                !.pc = IF Tail(refresh.keys) = <<>> THEN "done" ELSE "hset"]
  /\ UNCHANGED <<ticks, valid_option_expiry, option_chain, observed, index_before,
                 streamVars, tickVars, chainVars, tokenVars, connectVars,
                 configVars>>

\* a reader's db.hkeys('option_token_info') (validate_and_fix, line 198)
read_hkeys ==
  /\ observed' = [op |-> "hkeys", value |-> DOMAIN option_token_info]
  /\ UNCHANGED <<storeVars, refresh, index_before, streamVars, tickVars, chainVars, tokenVars, connectVars,
                 configVars>>

\* a reader's db.smembers('valid_option_expiry') (validate_and_fix, line 212)
read_smembers ==
  /\ observed' = [op |-> "smembers", value |-> valid_option_expiry]
  /\ UNCHANGED <<storeVars, refresh, index_before, streamVars, tickVars, chainVars, tokenVars, connectVars,
                 configVars>>

\* what get_hash_value(db, 'option_token_info', key) returns: the expiries of
\* the key and their token lists, nothing (None) for an absent key
IndexEntry(index, key) ==
  IF HasKey(index, key)
  THEN {<<e, index[key][e]>> : e \in DOMAIN index[key]}
  ELSE {}

\* a reader's get_hash_value(db, 'option_token_info', key) (token resolution
\* and aggregation)
read_hget(key) ==
  /\ observed' = [op |-> "hget", key |-> key,
                  found |-> HasKey(option_token_info, key),
                  value |-> IndexEntry(option_token_info, key)]
  /\ UNCHANGED <<storeVars, refresh, index_before, streamVars, tickVars, chainVars, tokenVars, connectVars,
                 configVars>>

IndexKeys == {"NFO:A", "NFO:B", "NFO:Z"}

IndexInit ==
  /\ ticks = <<>>
  /\ \E old \in Catalogs \cup {<<>>} :
       /\ option_token_info = IndexOf(old)
       /\ valid_option_expiry = ValidExpiry(old)
       /\ index_before = [option_token_info |-> IndexOf(old),
                          valid_option_expiry |-> ValidExpiry(old)]
  /\ option_chain = <<>>
  /\ args = [trading_symbols |-> <<>>, secrets |-> "ok", expiry |-> E1,
             max_connections |-> MAX_WEBSOCKET_CONNECTIONS, threaded |-> TRUE]
  /\ self = NoSelf
  /\ caller_pc = "new"
  /\ procs = <<>>
  /\ sup_i = 1
  /\ all_process_running = TRUE
  /\ healthy_log = {}
  /\ agg_thread = "none"
  /\ terminations = 0
  /\ batches = <<>>
  /\ thread_pos = <<>>
  /\ ws_state = "running"
  /\ refresh = NoRefresh
  /\ observed = NoRead
  /\ last_call = NoCall
  /\ sup_thread = "none"
  /\ fetched = NoFetch
  /\ ltp = <<>>
  /\ resolved = NoResolve
  /\ ws_calls = <<>>
  /\ option_chain_config = NoConfig
  /\ today = 1
  /\ checked = NoCheck
  /\ agg_pass = NoPass

IndexNext ==
  \/ \E instruments \in Catalogs : process_instruments_begin(instruments)
  \/ process_instruments_delete_expiry
  \/ process_instruments_sadd
  \/ process_instruments_delete_info
  \/ process_instruments_hset
  \/ read_hkeys
  \/ read_smembers
  \/ \E key \in IndexKeys : read_hget(key)

IndexSpec == IndexInit /\ [][IndexNext]_vars

(***************************************************************************)
(* ChainSpec: calls of OptionChainCreator.create_option_chain on a store   *)
(* whose ticks table the tickers keep writing.                             *)
(***************************************************************************)
ChainSymbols == {"NFO:A", "NFO:B", "NFO:C"}

\* the tokens ticks arrive for, and those that also arrive in quote mode
ChainTickTokens == {1, 2, 3, 4, 5, 6}
ChainQuoteTokens == {2}

\* handle_ticks line 78, by some ticker: the tick of one token is stored
chain_hset_tick(token, mode) ==
  /\ ticks' = HSet(ticks, token, Tick(token, mode, 1))
  /\ UNCHANGED <<option_token_info, valid_option_expiry, option_chain,
                 streamVars, tickVars, indexVars, chainVars, tokenVars, connectVars,
                 configVars>>

\* a call of create_option_chain(trading_symbol, expiry)
call_create_option_chain(trading_symbol, expiry) ==
  /\ LET result == create_option_chain(ticks, option_token_info, option_chain,
                                       trading_symbol, expiry)
     IN /\ option_chain' = result.option_chain
        /\ last_call' = [trading_symbol |-> trading_symbol, expiry |-> expiry,
                         outcome |-> result.outcome]
  /\ UNCHANGED <<ticks, option_token_info, valid_option_expiry,
                 streamVars, tickVars, indexVars, tokenVars, connectVars,
                 configVars, fetched, agg_pass>>

ChainInit ==
  /\ ticks = <<>>
  /\ \E instruments \in {CatalogToday, <<>>} :
       /\ option_token_info = IndexOf(instruments)
       /\ valid_option_expiry = ValidExpiry(instruments)
       /\ index_before = [option_token_info |-> IndexOf(instruments),
                          valid_option_expiry |-> ValidExpiry(instruments)]
  /\ option_chain = <<>>
  /\ args = [trading_symbols |-> <<>>, secrets |-> "ok", expiry |-> E1,
             max_connections |-> MAX_WEBSOCKET_CONNECTIONS, threaded |-> TRUE]
  /\ self = NoSelf
  /\ caller_pc = "new"
  /\ procs = <<>>
  /\ sup_i = 1
  /\ all_process_running = TRUE
  /\ healthy_log = {}
  /\ agg_thread = "none"
  /\ terminations = 0
  /\ batches = <<>>
  /\ thread_pos = <<>>
  /\ ws_state = "running"
  /\ refresh = NoRefresh
  /\ observed = NoRead
  /\ last_call = NoCall
  /\ sup_thread = "none"
  /\ fetched = NoFetch
  /\ ltp = <<>>
  /\ resolved = NoResolve
  /\ ws_calls = <<>>
  /\ option_chain_config = NoConfig
  /\ today = 1
  /\ checked = NoCheck
  /\ agg_pass = NoPass

ChainNext ==
  \/ \E token \in ChainTickTokens : chain_hset_tick(token, MODE_FULL)
  \/ \E token \in ChainQuoteTokens : chain_hset_tick(token, MODE_QUOTE)
  \/ \E trading_symbol \in ChainSymbols : \E expiry \in ArgExpiries :
       call_create_option_chain(trading_symbol, expiry)

ChainSpec == ChainInit /\ [][ChainNext]_vars

(***************************************************************************)
(* OptionChainFetcher, and FetchSpec: a client that fetches chains from a  *)
(* store on which create_option_chain is called and ticks are written.  A  *)
(* call's result is [err, value] when it returns (err = "") and            *)
(* [err, symbol] when it raises: symbol is the one the message names.      *)
(***************************************************************************)
\* a faulty fetch: an absent chain is returned as an empty record
get_option_chain_or_empty(chains, trading_symbol) ==
  IF ~HasKey(chains, trading_symbol)
  THEN [err |-> "", value |-> [trading_symbol |-> "", exchange |-> "", expiry |-> <<>>]]
  ELSE [err |-> "", value |-> chains[trading_symbol]]

\* OptionChainFetcher.get_option_chain(trading_symbol)
get_option_chain(chains, trading_symbol) ==
  IF ~HasKey(chains, trading_symbol)
  THEN [err |-> "Exception", symbol |-> trading_symbol]
  ELSE [err |-> "", value |-> chains[trading_symbol]]

RECURSIVE get_option_chains_skipping(_, _, _)
\* a faulty batch fetch: a symbol without a chain is left out of the list
get_option_chains_skipping(chains, trading_symbols, option_chain_list) ==
  IF trading_symbols = <<>>
  THEN [err |-> "", value |-> option_chain_list]
  ELSE LET one == get_option_chain(chains, Head(trading_symbols))
       IN get_option_chains_skipping(chains, Tail(trading_symbols),
            IF one.err # "" THEN option_chain_list
            ELSE Append(option_chain_list, one.value))

RECURSIVE get_option_chains_from(_, _, _)
\* OptionChainFetcher.get_option_chains, the loop of lines 39-40 from the
\* list built so far; the exception of get_option_chain is not caught
get_option_chains_from(chains, trading_symbols, option_chain_list) ==
  IF trading_symbols = <<>>
  THEN [err |-> "", value |-> option_chain_list]
  ELSE LET one == get_option_chain(chains, Head(trading_symbols))
       IN IF one.err # ""
          THEN one
          ELSE get_option_chains_from(chains, Tail(trading_symbols),
                                      Append(option_chain_list, one.value))

\* OptionChainFetcher.get_option_chains(trading_symbols)
get_option_chains(chains, trading_symbols) ==
  get_option_chains_from(chains, trading_symbols, <<>>)

\* symbols in one get_option_chains call
MaxFetch == 2

\* the tokens ticks arrive for in this specification: 100 CE of NFO:A in full
\* mode, 100 PE of NFO:A as a quote-mode payload
FetchFullTokens == {1}
FetchQuoteTokens == {2}

\* a call of get_option_chain(trading_symbol)
call_get_option_chain(trading_symbol) ==
  /\ fetched' = [op |-> "get_option_chain", arg |-> <<trading_symbol>>,
                 result |-> get_option_chain(option_chain, trading_symbol)]
  /\ UNCHANGED <<storeVars, streamVars, tickVars, indexVars, tokenVars, connectVars,
                 configVars, last_call, agg_pass>>

\* a call of get_option_chains(trading_symbols)
call_get_option_chains(trading_symbols) ==
  /\ fetched' = [op |-> "get_option_chains", arg |-> trading_symbols,
                 result |-> get_option_chains(option_chain, trading_symbols)]
  /\ UNCHANGED <<storeVars, streamVars, tickVars, indexVars, tokenVars, connectVars,
                 configVars, last_call, agg_pass>>

FetchInit == ChainInit

FetchNext ==
  \/ \E token \in FetchFullTokens : chain_hset_tick(token, MODE_FULL)
  \/ \E token \in FetchQuoteTokens : chain_hset_tick(token, MODE_QUOTE)
  \/ \E trading_symbol \in ChainSymbols : \E expiry \in ArgExpiries :
       call_create_option_chain(trading_symbol, expiry)
  \/ \E trading_symbol \in ChainSymbols : call_get_option_chain(trading_symbol)
  \/ \E trading_symbols \in SeqsUpTo(ChainSymbols, MaxFetch) :
       call_get_option_chains(trading_symbols)

FetchSpec == FetchInit /\ [][FetchNext]_vars

(***************************************************************************)
(* Python float arithmetic (IEEE 754 binary64, round to nearest, ties to   *)
(* even) for the gap computed in get_tokens, line 252.  A positive float   *)
(* is [zero |-> FALSE, m, exp]: m holds the 53 bits of its significand as  *)
(* four digits, the most significant first, a first digit of 5 bits (16 to *)
(* 31) and three digits of 16 bits, and its value is m / 2^52 * 2^exp;     *)
(* zero is [zero |-> TRUE].  Strikes and percentages are small whole       *)
(* numbers, which floats hold exactly.                                     *)
(***************************************************************************)
\* one digit of a significand holds 16 bits
DIGIT == 65536
\* the leading bit of a significand, in its first digit
LEADING == 16

\* the significand plus one unit in its last place
Increment(m) ==
  IF m[4] < DIGIT - 1 THEN <<m[1], m[2], m[3], m[4] + 1>>
  ELSE IF m[3] < DIGIT - 1 THEN <<m[1], m[2], m[3] + 1, 0>>
  ELSE IF m[2] < DIGIT - 1 THEN <<m[1], m[2] + 1, 0, 0>>
  ELSE <<m[1] + 1, 0, 0, 0>>

\* the float nearest to a value whose first 53 bits are m, whose next bit is
\* guard and which has more below that bit iff sticky; a tie goes to the even
\* significand
Rounded(m, exp, guard, sticky) ==
  LET up == guard = 1 /\ (sticky \/ m[4] % 2 = 1)
  IN IF ~up THEN [zero |-> FALSE, m |-> m, exp |-> exp]
     ELSE IF Increment(m)[1] = 2 * LEADING
     THEN [zero |-> FALSE, m |-> <<LEADING, 0, 0, 0>>, exp |-> exp + 1]
     ELSE [zero |-> FALSE, m |-> Increment(m), exp |-> exp]

\* num / den * 2^exp with den <= num < 2 den, as a float: long division, 4
\* bits, three digits and the guard bit
DivScaled(num, den, exp) ==
  LET r0 == num - den
      r1 == (r0 * LEADING) % den
      r2 == (r1 * DIGIT) % den
      r3 == (r2 * DIGIT) % den
      r4 == (r3 * DIGIT) % den
  IN Rounded(<<LEADING + (r0 * LEADING) \div den, (r1 * DIGIT) \div den,
               (r2 * DIGIT) \div den, (r3 * DIGIT) \div den>>,
             exp, (2 * r4) \div den, (2 * r4) % den # 0)

\* the exponents a quotient of two of the model's numbers can have
MAX_EXPONENT == 12

\* x / y for whole numbers x > 0, y > 0: the quotient is in [2^e, 2^(e+1))
ExponentOf(x, y) ==
  IF x >= y
  THEN CHOOSE e \in 0..MAX_EXPONENT : y * 2^e <= x /\ x < y * 2^(e + 1)
  ELSE -(CHOOSE e \in 1..MAX_EXPONENT : x * 2^e >= y /\ x * 2^(e - 1) < y)

\* x / y for whole numbers x >= 0, y > 0 held as floats
float_div(x, y) ==
  IF x = 0 THEN [zero |-> TRUE]
  ELSE IF ExponentOf(x, y) >= 0
  THEN DivScaled(x, y * 2^ExponentOf(x, y), ExponentOf(x, y))
  ELSE DivScaled(x * 2^(-ExponentOf(x, y)), y, ExponentOf(x, y))

\* the digits p of a product whose first digit has 11 or 12 bits, rounded to
\* 53 bits: they are shifted right by shift bits, 6 or 7
RoundProduct(p, exp, shift) ==
  LET w == 2^shift
      up == DIGIT \div w
  IN Rounded(<<p[1] \div w,
               (p[1] % w) * up + p[2] \div w,
               (p[2] % w) * up + p[3] \div w,
               (p[3] % w) * up + p[4] \div w>>,
             exp + shift, (p[4] \div (w \div 2)) % 2, p[4] % (w \div 2) # 0)

\* f * 100 for a float f: the exact product, digit by digit with the carries,
\* rounded once
float_mul_100(f) ==
  IF f.zero
  THEN f
  ELSE LET p4 == f.m[4] * 100
           p3 == f.m[3] * 100 + p4 \div DIGIT
           p2 == f.m[2] * 100 + p3 \div DIGIT
           p1 == f.m[1] * 100 + p2 \div DIGIT
       IN RoundProduct(<<p1, p2 % DIGIT, p3 % DIGIT, p4 % DIGIT>>, f.exp,
                       IF p1 >= 128 * LEADING THEN 7 ELSE 6)

\* f <= g for floats f, g >= 0
float_le(f, g) ==
  IF f.zero THEN TRUE
  ELSE IF g.zero THEN FALSE
  ELSE IF f.exp # g.exp THEN f.exp < g.exp
  ELSE IF f.m[1] # g.m[1] THEN f.m[1] < g.m[1]
  ELSE IF f.m[2] # g.m[2] THEN f.m[2] < g.m[2]
  ELSE IF f.m[3] # g.m[3] THEN f.m[3] < g.m[3]
  ELSE f.m[4] <= g.m[4]

\* lines 252-253: gap = abs(otm_strike_price - strike_price) /
\* otm_strike_price * 100; gap <= percent_value
gap_within(otm_strike_price, strike_price, percent_value) ==
  LET distance == IF otm_strike_price >= strike_price
                  THEN otm_strike_price - strike_price
                  ELSE strike_price - otm_strike_price
  IN float_le(float_mul_100(float_div(distance, otm_strike_price)),
              float_div(percent_value, 1))

(***************************************************************************)
(* AggSpec: the aggregation loop of a started stream, beside the tickers   *)
(* of its workers, which deliver batches of any mix of modes, and beside a *)
(* refresh of the instrument index made by another client of the store.    *)
(***************************************************************************)
\* the symbols and the expiry of the started stream
AggSymbols == <<"NFO:B">>
AggExpiry == E1

\* the batches a ticker may deliver: a tick for every subscribed token, each
\* in full or in quote mode
AggBatches(tokens) ==
  {[k \in 1..Len(tokens) |-> Tick(tokens[k], modes[k], 0)] :
     modes \in [1..Len(tokens) -> {MODE_FULL, MODE_QUOTE}]}

\* the state start() leaves when it hands over to create_option_chain
AggInit ==
  /\ ticks = <<>>
  /\ option_token_info = CatalogIndex
  /\ valid_option_expiry = CatalogExpiries
  /\ index_before = [option_token_info |-> CatalogIndex,
                     valid_option_expiry |-> CatalogExpiries]
  /\ option_chain = <<>>
  /\ \E threaded \in BOOLEAN :
       /\ args = [trading_symbols |-> AggSymbols, secrets |-> "ok",
                  expiry |-> AggExpiry,
                  max_connections |-> MAX_WEBSOCKET_CONNECTIONS,
                  threaded |-> threaded]
       /\ agg_thread = create_option_chain_thread(threaded)
       /\ caller_pc = IF threaded THEN "returned" ELSE "create_option_chain"
  /\ LET all_tokens == get_tokens(CatalogIndex, AggSymbols, AggExpiry).tokens
         n == connection_count(MAX_WEBSOCKET_CONNECTIONS, all_tokens)
     IN /\ self = [trading_symbols |-> AggSymbols, expiry |-> AggExpiry,
                   max_connections |-> n, all_tokens |-> all_tokens,
                   error |-> ""]
        /\ procs = [i \in 1..n |-> NewProc(connection_tokens(all_tokens, i - 1))]
        /\ sup_i = n + 1
        /\ healthy_log = 1..n
  /\ all_process_running = TRUE
  /\ sup_thread = "caller"
  /\ terminations = 0
  /\ batches = <<>>
  /\ thread_pos = <<>>
  /\ ws_state = "running"
  /\ refresh = NoRefresh
  /\ observed = NoRead
  /\ last_call = NoCall
  /\ fetched = NoFetch
  /\ ltp = <<>>
  /\ resolved = NoResolve
  /\ ws_calls = <<>>
  /\ option_chain_config = NoConfig
  /\ today = 1
  /\ checked = NoCheck
  /\ agg_pass = NoPass

AggNext ==
  \/ aggregation_pass
  \/ \E i \in 1..Len(procs) : \E batch \in AggBatches(procs[i].tokens) : on_ticks(i, batch)
  \/ \E instruments \in Catalogs : process_instruments_begin(instruments)
  \/ process_instruments_delete_expiry
  \/ process_instruments_sadd
  \/ process_instruments_delete_info
  \/ process_instruments_hset

AggSpec == AggInit /\ [][AggNext]_vars

\* the thread that calls OptionStream, and the aggregation loop
Caller ==
  \/ OptionStream_init
  \/ start
  \/ fix_processes_sleep
  \/ fix_processes_check
  \/ fix_processes_end
  \/ start_create_option_chain

\* Spec with the thread that calls OptionStream (the constructor, start() and
\* its supervision loop) scheduled fairly
FairSpec == Spec /\ WF_vars(Caller)

(***************************************************************************)
(* Properties of OptionStream (specification Spec).                        *)
(***************************************************************************)
\* the caller is past the loop of start() that creates the processes
Launched ==
  caller_pc \in {"fix_sleep", "fix_check", "fix_returned", "returned",
                 "create_option_chain"}

\* the list positions (from 1) of the tokens the process of entry i owns
Positions(i) ==
  {(i - 1) * MAX_TOKENS_PER_WEBSOCKET + k : k \in 1..Len(procs[i].tokens)}

\* C1: once start() has launched the workers of a validated stream, there are
\* exactly min(max_connections, ceil(N / capacity)) of them, worker i owns
\* the contiguous slice tokens[i*capacity : (i+1)*capacity] of the N resolved
\* tokens, the slices are pairwise disjoint and their concatenation in worker
\* order is the resolved token list.
C1_SlicesPartitionTokens ==
  Launched =>
    LET tokens == self.all_tokens
        N == Len(tokens)
        C == MAX_TOKENS_PER_WEBSOCKET
        n == Len(procs)
        ceil == IF N % C = 0 THEN N \div C ELSE (N \div C) + 1
    IN /\ n = IF args.max_connections <= ceil THEN args.max_connections ELSE ceil
       /\ \A i \in 1..n :
            /\ Len(procs[i].tokens) = (IF i * C <= N THEN C ELSE N - (i - 1) * C)
            /\ \A k \in 1..Len(procs[i].tokens) :
                 procs[i].tokens[k] = tokens[(i - 1) * C + k]
       /\ \A i, j \in 1..n : i # j => Positions(i) \cap Positions(j) = {}
       /\ UNION {Positions(i) : i \in 1..n} = 1..N
       /\ Concat([i \in 1..n |-> procs[i].tokens]) = tokens

\* C1 witness: with room for three workers, three tokens were split over
\* two workers, the second owning the one token left
C1_Witness ==
  /\ Launched
  /\ args.max_connections = MAX_WEBSOCKET_CONNECTIONS
  /\ Len(self.all_tokens) = 3
  /\ Len(procs) = 2
  /\ Len(procs[2].tokens) = 1

\* C2: there are never more than MAX_WEBSOCKET_CONNECTIONS live workers, and
\* no worker's slice holds more than MAX_TOKENS_PER_WEBSOCKET tokens.
C2_AtMostThreeWorkers ==
  /\ Cardinality({i \in 1..Len(procs) : procs[i].alive}) <= MAX_WEBSOCKET_CONNECTIONS
  /\ \A i \in 1..Len(procs) : Len(procs[i].tokens) <= MAX_TOKENS_PER_WEBSOCKET

\* one step of the system as the supervision loop is meant to shape it
C3_Step ==
  \* a process is replaced only by the check of its entry that finds it
  \* not alive, by exactly one new process, bound to the same tokens
  /\ \A i \in 1..Len(procs) :
       procs'[i].gen # procs[i].gen =>
         /\ caller_pc = "fix_check"
         /\ sup_i = i
         /\ ~procs[i].alive
         /\ procs'[i].gen = procs[i].gen + 1
         /\ procs'[i].alive
         /\ \A j \in 1..Len(procs) : j # i => procs'[j] = procs[j]
  \* the check of an entry whose process is not alive replaces it
  /\ (caller_pc = "fix_check" /\ sup_i' = sup_i + 1 /\ ~procs[sup_i].alive) =>
       procs'[sup_i].gen = procs[sup_i].gen + 1
  \* the tokens of an entry never change
  /\ procs # <<>> =>
       /\ Len(procs') = Len(procs)
       /\ \A i \in 1..Len(procs) : procs'[i].tokens = procs[i].tokens
  \* the loop returns only from a pass that reported every entry alive
  /\ (caller_pc # "fix_returned" /\ caller_pc' = "fix_returned") =>
       /\ caller_pc = "fix_check"
       /\ healthy_log = 1..Len(procs)

\* C3: a supervision pass that finds a worker not alive creates exactly one
\* replacement for that entry, bound to the same token slice, and
\* fix_processes returns only after a full pass in which every current worker
\* was reported alive.
C3_SupervisionPass == [][C3_Step]_vars

\* C3 witness: the loop has returned and an entry holds a replacement
C3_Witness ==
  /\ caller_pc = "fix_returned"
  /\ \E i \in 1..Len(procs) : procs[i].gen >= 1

\* C4: a worker that has terminated, at any point after start() was called,
\* is eventually replaced by a live worker for the same entry.
C4_DeadWorkerReplaced ==
  \A i \in 1..(MAX_WEBSOCKET_CONNECTIONS + 1) :
    (i <= Len(procs) /\ ~procs[i].alive) ~> (i <= Len(procs) /\ procs[i].alive)

C5_Step ==
  /\ \A i \in 1..Len(procs) : \A batch \in StreamBatches(procs[i].tokens) :
       (batch[1].mode # MODE_FULL /\ on_ticks(i, batch)) =>
         /\ ~procs'[i].alive
         /\ procs'[i].exit = "on_ticks"
         /\ ticks' = ticks
         /\ caller_pc' = caller_pc
         /\ self' = self
  /\ caller_pc' = "raised" => caller_pc \in {"new", "raised"}

AllHandled ==
  \A k \in 1..Len(batches) :
    batches[k][1].mode = MODE_FULL => thread_pos[k] = Len(batches[k])

\* the batches handed to a handle_ticks thread that hold a tick of token t
HandledWith(t) ==
  {k \in 1..Len(batches) :
     /\ batches[k][1].mode = MODE_FULL
     /\ \E j \in 1..Len(batches[k]) : batches[k][j].instrument_token = t}

\* C6: once every received batch has been handled, the tick stored under a
\* token is the payload of the most recently received batch that held the
\* token, whatever the interleaving of the handler threads.
C6_LastWriteWins ==
  AllHandled =>
    \A t \in TickerTokens :
      HandledWith(t) # {} =>
        LET last == CHOOSE k \in HandledWith(t) : \A k2 \in HandledWith(t) : k2 <= k
        IN /\ t \in DOMAIN ticks
           /\ \E j \in 1..Len(batches[last]) : ticks[t] = batches[last][j]

(***************************************************************************)
(* Properties of the instrument index (specification IndexSpec).           *)
(***************************************************************************)
\* the index a completed run of the current refresh leaves in the store
IndexAfter ==
  [option_token_info |-> IndexOf(refresh.instruments),
   valid_option_expiry |-> ValidExpiry(refresh.instruments)]

C7_Step ==
  /\ read_hkeys =>
       observed'.value \in {DOMAIN index_before.option_token_info,
                            DOMAIN IndexAfter.option_token_info}
  /\ read_smembers =>
       observed'.value \in {index_before.valid_option_expiry,
                            IndexAfter.valid_option_expiry}
  /\ \A key \in IndexKeys :
       read_hget(key) =>
         observed'.value \in {IndexEntry(index_before.option_token_info, key),
                              IndexEntry(IndexAfter.option_token_info, key)}

\* C7: a read of the instrument index that runs concurrently with a refresh
\* returns what the complete previous index or the complete new index holds,
\* never a half-built index.
C7_ReaderSeesWholeIndex == [][C7_Step]_vars

(***************************************************************************)
(* Properties of the chain aggregator (specification ChainSpec).           *)
(***************************************************************************)
\* the instrument index has a list for the expiry of the symbol
Indexed(trading_symbol, expiry) ==
  /\ trading_symbol \in DOMAIN option_token_info
  /\ expiry \in DOMAIN option_token_info[trading_symbol]

C8_Step ==
  \A trading_symbol \in ChainSymbols : \A expiry \in ArgExpiries :
    call_create_option_chain(trading_symbol, expiry) =>
      /\ \A other \in DOMAIN option_chain :
           other # trading_symbol =>
             /\ other \in DOMAIN option_chain'
             /\ option_chain'[other] = option_chain[other]
      /\ trading_symbol \in DOMAIN option_chain =>
           \A e \in DOMAIN option_chain[trading_symbol].expiry :
             e # expiry =>
               /\ e \in DOMAIN option_chain'[trading_symbol].expiry
               /\ option_chain'[trading_symbol].expiry[e]
                    = option_chain[trading_symbol].expiry[e]

\* C8: create_option_chain(symbol, expiry) replaces only the entry of the
\* given expiry in the record of the symbol: the entries stored for other
\* expiries of the symbol and the records of other symbols are unchanged.
C8_OtherExpiriesKept == [][C8_Step]_vars

\* the quote get_option_detail builds from the stored tick of a token
QuoteOf(token) ==
  [premium |-> ticks[token].last_price, instrument_token |-> token]

C9_Step ==
  \A trading_symbol \in ChainSymbols : \A expiry \in ArgExpiries :
    (call_create_option_chain(trading_symbol, expiry) /\ Indexed(trading_symbol, expiry)) =>
      LET infos == option_token_info[trading_symbol][expiry]
          ticked == {k \in 1..Len(infos) : infos[k].token \in DOMAIN ticks}
          strikes == {infos[k].strike_price : k \in ticked}
          Side(strike, type) ==
            {k \in ticked : infos[k].strike_price = strike /\ infos[k].instrument_type = type}
      IN \* a missing tick is no error: the call fails only on a stored tick
         \* that is not a full-mode payload
         /\ (\A k \in ticked : ticks[infos[k].token].mode = MODE_FULL)
              => last_call'.outcome = "written"
         /\ last_call'.outcome = "written" =>
              LET chain == option_chain'[trading_symbol].expiry[expiry]
              IN /\ Len(chain) = Cardinality(strikes)
                 /\ {chain[k].strike_price : k \in 1..Len(chain)} = strikes
                 /\ \A k \in 1..(Len(chain) - 1) :
                      chain[k].strike_price < chain[k + 1].strike_price
                 /\ \A k \in 1..Len(chain) :
                      /\ DOMAIN chain[k] \subseteq {"strike_price", "ce", "pe"}
                      /\ "ce" \in DOMAIN chain[k] <=> Side(chain[k].strike_price, "CE") # {}
                      /\ "pe" \in DOMAIN chain[k] <=> Side(chain[k].strike_price, "PE") # {}
                      /\ "ce" \in DOMAIN chain[k] =>
                           \E j \in Side(chain[k].strike_price, "CE") :
                             chain[k].ce = QuoteOf(infos[j].token)
                      /\ "pe" \in DOMAIN chain[k] =>
                           \E j \in Side(chain[k].strike_price, "PE") :
                             chain[k].pe = QuoteOf(infos[j].token)

\* C9: the chain create_option_chain writes has exactly one entry per strike
\* that has an instrument with a tick, an entry has a side (ce, pe) iff the
\* instrument of that side has a tick, instruments without a tick are skipped
\* without error, and the entries are in strictly ascending order of strike.
C9_ChainOfTickedStrikes == [][C9_Step]_vars

\* C9 witness: with ticks for 100 CE, 100 PE and 105 CE and instruments at
\* the strikes 100, 105 and 110 the chain written is 100 with both sides,
\* then 105 with the call only
C9_Witness ==
  /\ last_call = [trading_symbol |-> "NFO:A", expiry |-> E1, outcome |-> "written"]
  /\ DOMAIN ticks = {1, 2, 3}
  /\ LET chain == option_chain["NFO:A"].expiry[E1]
     IN /\ Len(chain) = 2
        /\ chain[1].strike_price = 100
        /\ DOMAIN chain[1] = {"strike_price", "ce", "pe"}
        /\ chain[2].strike_price = 105
        /\ DOMAIN chain[2] = {"strike_price", "ce"}

C10_Original_Step ==
  \A trading_symbol \in ChainSymbols : \A expiry \in ArgExpiries :
    (call_create_option_chain(trading_symbol, expiry) /\ ~Indexed(trading_symbol, expiry)) =>
      /\ last_call'.outcome = "NotFoundError"
      /\ option_chain' = option_chain

\* C10 as claimed: create_option_chain fails with a NotFound error when the
\* index has no entry for the symbol or no list for the expiry, and leaves
\* the option_chain table unchanged.
C10_FailsWithNotFound == [][C10_Original_Step]_vars

C10_Step ==
  \A trading_symbol \in ChainSymbols : \A expiry \in ArgExpiries :
    (call_create_option_chain(trading_symbol, expiry) /\ ~Indexed(trading_symbol, expiry)) =>
      /\ last_call'.outcome = "logged_error"
      /\ option_chain' = option_chain

\* C10 as amended: when the index has no entry for the symbol or no list for
\* the expiry, create_option_chain logs an error and returns without raising,
\* and leaves the option_chain table unchanged.
C10_LogsAndReturns == [][C10_Step]_vars

\* C10 witness: a call for an expiry the index does not list returned after
\* logging, with a chain of the symbol in the table
C10_Witness ==
  /\ last_call = [trading_symbol |-> "NFO:A", expiry |-> E3, outcome |-> "logged_error"]
  /\ "NFO:A" \in DOMAIN option_chain

(***************************************************************************)
(* Properties of the chain fetcher (specification FetchSpec).  The table   *)
(* option_chain starts empty and only create_option_chain writes to it.    *)
(***************************************************************************)
C11_Step ==
  /\ \A trading_symbol \in ChainSymbols :
       /\ call_get_option_chain(trading_symbol) =>
            IF trading_symbol \in DOMAIN option_chain
            THEN /\ fetched'.result.err = ""
                 /\ fetched'.result.value = option_chain[trading_symbol]
            ELSE /\ fetched'.result.err = "Exception"
                 /\ fetched'.result.symbol = trading_symbol
       \* a symbol gets a chain only by a create_option_chain call that wrote
       /\ (trading_symbol \in DOMAIN option_chain' /\ trading_symbol \notin DOMAIN option_chain)
            => /\ last_call'.trading_symbol = trading_symbol
               /\ last_call'.outcome = "written"
  /\ \A trading_symbol \in ChainSymbols : \A expiry \in ArgExpiries :
       (/\ call_create_option_chain(trading_symbol, expiry)
        /\ Indexed(trading_symbol, expiry)
        /\ last_call'.outcome = "written") =>
         LET got == get_option_chain(option_chain', trading_symbol)
         IN /\ got.err = ""
            /\ got.value.trading_symbol = option_token_info[trading_symbol][expiry][1].name
            /\ DOMAIN got.value.expiry = {expiry}

FirstMissing(trading_symbols) ==
  CHOOSE k \in 1..Len(trading_symbols) :
    /\ trading_symbols[k] \notin DOMAIN option_chain
    /\ \A j \in 1..(k - 1) : trading_symbols[j] \in DOMAIN option_chain

C12_Step ==
  \A trading_symbols \in SeqsUpTo(ChainSymbols, MaxFetch) :
    call_get_option_chains(trading_symbols) =>
      IF \A k \in 1..Len(trading_symbols) : trading_symbols[k] \in DOMAIN option_chain
      THEN /\ fetched'.result.err = ""
           /\ Len(fetched'.result.value) = Len(trading_symbols)
           /\ \A k \in 1..Len(trading_symbols) :
                fetched'.result.value[k] = option_chain[trading_symbols[k]]
      ELSE /\ fetched'.result.err = "Exception"
           /\ fetched'.result.symbol = trading_symbols[FirstMissing(trading_symbols)]
           /\ "value" \notin DOMAIN fetched'.result

\* C12: get_option_chains(symbols) returns one chain per input symbol, in the
\* input order, when every symbol has a chain; otherwise it fails at the
\* first symbol of the list that has no chain and returns no list.
C12_BatchFetchInOrder == [][C12_Step]_vars

\* C12 witness: the chains of NFO:B and NFO:A were fetched in that order
C12_Witness ==
  /\ fetched.op = "get_option_chains"
  /\ fetched.arg = <<"NFO:B", "NFO:A">>
  /\ fetched.result.err = ""
  /\ Len(fetched.result.value) = 2
  /\ fetched.result.value[1].trading_symbol = "B"
  /\ fetched.result.value[2].trading_symbol = "A"

(***************************************************************************)
(* Properties of start() (specification Spec).                             *)
(***************************************************************************)
\* C13: start() does not get past fix_processes, and so does not return to
\* its caller, before a supervision pass has run over every worker and found
\* each of them alive; with threaded=True it returns only after such a pass.
C13_ReturnsAfterHealthyPass ==
  (caller_pc \in {"fix_returned", "returned", "create_option_chain"} \/ agg_thread # "none")
    => /\ sup_i = Len(procs) + 1
       /\ healthy_log = 1..Len(procs)

\* C13 witness: start(threaded=True) has returned; the last pass found both
\* workers alive, one of them a replacement made by an earlier pass
C13_Witness ==
  /\ caller_pc = "returned"
  /\ args.threaded
  /\ Len(procs) = 2
  /\ healthy_log = {1, 2}
  /\ \E i \in 1..2 : procs[i].gen >= 1

\* C14 as claimed: the supervision loop runs on the caller's thread when
\* threaded=False and on a background thread when threaded=True.
C14_SupervisionThreadByFlag ==
  Launched => sup_thread = (IF args.threaded THEN "background" ELSE "caller")

\* C14 as amended: the supervision loop runs on the caller's thread, inside
\* start(), for both values of threaded, and no background thread of the
\* stream exists while it runs.
C14_SupervisionOnCallerThread ==
  Launched =>
    /\ sup_thread = "caller"
    /\ caller_pc \in {"fix_sleep", "fix_check"} => agg_thread = "none"

\* C14 witness: with threaded=True the caller's thread is in the middle of a
\* supervision pass
C14_Witness ==
  /\ args.threaded
  /\ caller_pc = "fix_check"
  /\ sup_thread = "caller"
  /\ sup_i = 2

\* C15 as claimed: once streaming has started the aggregation loop runs on a
\* thread of its own, separate from the caller's, for both values of threaded.
C15_AggregationOnOwnThread ==
  agg_thread # "none" => agg_thread = "background"

\* C15 as amended: the aggregation loop runs on a thread of its own when
\* threaded=True, and start() returns; it runs on the caller's thread when
\* threaded=False, and start() does not return.
C15_AggregationThreadByFlag ==
  agg_thread # "none" =>
    IF args.threaded
    THEN agg_thread = "background" /\ caller_pc = "returned"
    ELSE agg_thread = "caller" /\ caller_pc = "create_option_chain"

\* C15 witness: with threaded=False a pass of the aggregation loop has
\* written a chain from the caller's thread
C15_Witness ==
  /\ ~args.threaded
  /\ agg_thread = "caller"
  /\ caller_pc = "create_option_chain"
  /\ option_chain # <<>>

(***************************************************************************)
(* Properties of the aggregation loop (specification AggSpec).             *)
(***************************************************************************)
\* C16: the aggregation loop, once started, never terminates on its own,
\* whatever the tickers and a refresh have put in the ticks table and in the
\* instrument index: it is still running in every reachable state.
C16_AggregationLoopRuns ==
  agg_thread \in {"background", "caller"}

(***************************************************************************)
(* Properties of the constructor (specification Spec).                     *)
(***************************************************************************)
\* the arguments are of a kind the validation is meant to reject: malformed
\* credentials, a symbol without exchange prefix, an unknown expiry, or more
\* resolved tokens than max_connections connections can hold
InvalidArgs ==
  \/ args.secrets # "ok"
  \/ \E k \in 1..Len(args.trading_symbols) : ~HasExchange(args.trading_symbols[k])
  \/ args.expiry \notin valid_option_expiry
  \/ LET got == get_tokens(option_token_info, args.trading_symbols, args.expiry)
     IN /\ got.err = ""
        /\ Len(got.tokens) > args.max_connections * MAX_TOKENS_PER_WEBSOCKET

\* C17: constructing an OptionStream with malformed credentials, a symbol
\* without exchange prefix, too many resolved tokens or an unknown expiry
\* raises OptionStreamValidationException from the constructor, and no worker
\* has been launched.
C17_ValidationErrorRaised ==
  (caller_pc # "new" /\ InvalidArgs) =>
    /\ caller_pc = "raised"
    /\ self.error = "OptionStreamValidationException"
    /\ procs = <<>>

(***************************************************************************)
(* KiteInstrumentFetcher.get_tokens with the percentage criteria, and      *)
(* TokenSpec: a client that resolves tokens from an index while fetch_ltp  *)
(* writes last prices.  A symbol is a string; Chars gives its characters,  *)
(* on which 'in' and str.replace work.  The keys of the hash 'ltp' are     *)
(* held as characters.  Strikes, last prices and percentages are whole     *)
(* numbers.                                                                *)
(***************************************************************************)
\* the characters of the symbols of TokenSpec
Chars(trading_symbol) ==
  IF trading_symbol = "NFO:A" THEN <<"N", "F", "O", ":", "A">>
  ELSE IF trading_symbol = "MCX:C" THEN <<"M", "C", "X", ":", "C">>
  ELSE IF trading_symbol = "BFO:INFO" THEN <<"B", "F", "O", ":", "I", "N", "F", "O">>
  ELSE <<"N", "F", "O", ":", "Q">>

\* sub in s
Contains(s, sub) ==
  \E i \in 1..(Len(s) - Len(sub) + 1) : SubSeq(s, i, i + Len(sub) - 1) = sub

RECURSIVE Replace(_, _, _)
\* s.replace(old, new): every occurrence, from the left
Replace(s, old, new) ==
  IF Len(s) < Len(old)
  THEN s
  ELSE IF SubSeq(s, 1, Len(old)) = old
  THEN new \o Replace(SubSeq(s, Len(old) + 1, Len(s)), old, new)
  ELSE <<Head(s)>> \o Replace(Tail(s), old, new)

NFO == <<"N", "F", "O">>
NSE == <<"N", "S", "E">>

\* a key of 'ltp' written as if the underlying traded on the options exchange
ltp_key_on_bfo(name) == <<"B", "F", "O", ":">> \o name

\* f'NSE:{item["name"]}', the key fetch_ltp stores a last price under
ltp_key(name) == NSE \o <<":">> \o name

\* the fields of an instrument info that get_tokens reads
TokenInfo(token, strike_price, instrument_type) ==
  [token |-> token, strike_price |-> strike_price, instrument_type |-> instrument_type]

\* the index TokenSpec resolves from, as process_instruments stores it: an
\* equity-options symbol with two expiries, a commodity-options symbol, and
\* a symbol of another exchange whose name holds the letters NFO
TokenIndex ==
  [key \in {"NFO:A", "MCX:C", "BFO:INFO"} |->
     IF key = "NFO:A"
     THEN [e \in {E1, E2} |->
             IF e = E1
             THEN sorted_by_comparator(<<TokenInfo(14, 100, "PE"), TokenInfo(11, 86, "PE"),
                                         TokenInfo(15, 107, "CE"), TokenInfo(13, 100, "CE"),
                                         TokenInfo(16, 114, "PE"), TokenInfo(12, 93, "CE")>>)
             ELSE <<TokenInfo(17, 100, "CE")>>]
     ELSE IF key = "MCX:C"
     THEN [e \in {E1} |-> <<TokenInfo(21, 50, "CE"), TokenInfo(22, 60, "PE")>>]
     ELSE [e \in {E1} |-> <<TokenInfo(31, 100, "CE"), TokenInfo(32, 200, "PE")>>]]

\* first_otm_strike_price(token_info_list, ltp)
first_otm_strike_price(token_info_list, ltp_value) ==
  LET otm == {k \in 1..Len(token_info_list) : token_info_list[k].strike_price >= ltp_value}
  IN IF otm = {}
     THEN token_info_list[Len(token_info_list)].strike_price
     ELSE token_info_list[CHOOSE k \in otm : \A j \in otm : k <= j].strike_price

\* a filter that takes a missing last price for an error
percentage_tokens_needs_ltp(index, ltp_hash, trading_symbol, expiry, percent_value) ==
  IF Contains(Chars(trading_symbol), NFO)
       /\ ~HasKey(ltp_hash, Replace(Chars(trading_symbol), NFO, NSE))
  THEN [err |-> "KiteInstrumentManagerException", tokens |-> <<>>]
  ELSE get_token_info_for_trading_symbol(index, trading_symbol, expiry)

\* one turn of the loop of lines 224-257: [err, tokens] for one symbol
percentage_tokens(index, ltp_hash, trading_symbol, expiry, percent_value) ==
  IF ~Contains(Chars(trading_symbol), NFO)
  THEN get_token_info_for_trading_symbol(index, trading_symbol, expiry)
  ELSE IF ~HasKey(index, trading_symbol)
  THEN [err |-> "TypeError", tokens |-> <<>>]
  ELSE IF ~HasKey(index[trading_symbol], expiry)
  THEN [err |-> "KiteInstrumentManagerException", tokens |-> <<>>]
  ELSE IF ~HasKey(ltp_hash, Replace(Chars(trading_symbol), NFO, NSE))
  THEN get_token_info_for_trading_symbol(index, trading_symbol, expiry)
  ELSE LET token_info_list == index[trading_symbol][expiry]
           otm_strike_price ==
             first_otm_strike_price(token_info_list,
                                    ltp_hash[Replace(Chars(trading_symbol), NFO, NSE)])
           new_tokens == SelectSeq(token_info_list,
                                   LAMBDA token_info :
                                     gap_within(otm_strike_price, token_info.strike_price,
                                                percent_value))
       IN [err |-> "", tokens |-> [k \in 1..Len(new_tokens) |-> new_tokens[k].token]]

RECURSIVE get_tokens_percentage(_, _, _, _, _)
\* lines 213-259: the loop ends at the first symbol that raises
get_tokens_percentage(index, ltp_hash, trading_symbols, expiry, percent_value) ==
  IF trading_symbols = <<>>
  THEN [err |-> "", tokens |-> <<>>]
  ELSE LET first == percentage_tokens(index, ltp_hash, Head(trading_symbols), expiry,
                                      percent_value)
       IN IF first.err # ""
          THEN first
          ELSE LET rest == get_tokens_percentage(index, ltp_hash, Tail(trading_symbols),
                                                 expiry, percent_value)
               IN IF rest.err # ""
                  THEN rest
                  ELSE [err |-> "", tokens |-> first.tokens \o rest.tokens]

\* no criteria (None), or the percentage criteria with its value
NoCriteria == [name |-> "None", value |-> 0]
Percentage(value) == [name |-> "percentage", value |-> value]

\* get_tokens(trading_symbols, expiry, criteria)
get_tokens_with(index, ltp_hash, trading_symbols, expiry, criteria) ==
  IF criteria = NoCriteria
  THEN get_tokens(index, trading_symbols, expiry)
  ELSE get_tokens_percentage(index, ltp_hash, trading_symbols, expiry, criteria.value)

\* calls of get_tokens in one run
MaxResolves == 2

TokenSymbols == {"NFO:A", "MCX:C", "BFO:INFO", "NFO:Q"}
TokenExpiries == {E1, E2}
TokenCriteria == {NoCriteria, Percentage(7), Percentage(14)}
\* the underlyings fetch_ltp asks prices for, each with a price it may get
LtpQuotes == {<<<<"A">>, 90>>, <<<<"A">>, 100>>, <<<<"A">>, 130>>,
              <<<<"I", "N", "S", "E">>, 100>>}

\* fetch_ltp, line 50: one hset of the loop
fetch_ltp_hset(name, last_price) ==
  /\ ltp' = HSet(ltp, ltp_key(name), last_price)
  /\ UNCHANGED <<storeVars, streamVars, tickVars, indexVars, chainVars, resolved,
                 connectVars, configVars>>

\* a client calls get_tokens
call_get_tokens(trading_symbols, expiry, criteria) ==
  /\ IF resolved.op = "none" THEN TRUE ELSE resolved.run < MaxResolves
  /\ resolved' = [op |-> "get_tokens",
                  run |-> IF resolved.op = "none" THEN 1 ELSE resolved.run + 1,
                  trading_symbols |-> trading_symbols,
                  expiry |-> expiry,
                  criteria |-> criteria,
                  result |-> get_tokens_with(option_token_info, ltp, trading_symbols,
                                             expiry, criteria)]
  /\ UNCHANGED <<storeVars, streamVars, tickVars, indexVars, chainVars, ltp,
                 connectVars, configVars>>

TokenInit ==
  /\ ticks = <<>>
  /\ option_token_info = TokenIndex
  /\ valid_option_expiry = {E1, E2}
  /\ index_before = [option_token_info |-> TokenIndex, valid_option_expiry |-> {E1, E2}]
  /\ option_chain = <<>>
  /\ args = [trading_symbols |-> <<>>, secrets |-> "ok", expiry |-> E1,
             max_connections |-> MAX_WEBSOCKET_CONNECTIONS, threaded |-> TRUE]
  /\ self = NoSelf
  /\ caller_pc = "new"
  /\ procs = <<>>
  /\ sup_i = 1
  /\ all_process_running = TRUE
  /\ healthy_log = {}
  /\ agg_thread = "none"
  /\ terminations = 0
  /\ batches = <<>>
  /\ thread_pos = <<>>
  /\ ws_state = "running"
  /\ refresh = NoRefresh
  /\ observed = NoRead
  /\ last_call = NoCall
  /\ sup_thread = "none"
  /\ fetched = NoFetch
  /\ ltp = <<>>
  /\ resolved = NoResolve
  /\ ws_calls = <<>>
  /\ option_chain_config = NoConfig
  /\ today = 1
  /\ checked = NoCheck
  /\ agg_pass = NoPass

TokenNext ==
  \/ \E quote \in LtpQuotes : fetch_ltp_hset(quote[1], quote[2])
  \/ \E trading_symbols \in SeqsUpTo(TokenSymbols, MaxSymbols) :
       \E expiry \in TokenExpiries : \E criteria \in TokenCriteria :
         call_get_tokens(trading_symbols, expiry, criteria)

TokenSpec == TokenInit /\ [][TokenNext]_vars

(***************************************************************************)
(* Properties of get_tokens (specification TokenSpec).                     *)
(***************************************************************************)
Elements(seq) == {seq[k] : k \in 1..Len(seq)}

\* every token the index holds for a symbol at an expiry
FullTokens(trading_symbol, expiry) ==
  {option_token_info[trading_symbol][expiry][k].token :
     k \in 1..Len(option_token_info[trading_symbol][expiry])}

\* a call of get_tokens without criteria has just returned or raised
C18_Step ==
  (resolved' # resolved /\ resolved'.criteria = NoCriteria) =>
    LET symbols == Elements(resolved'.trading_symbols)
    IN /\ IF \A s \in symbols : Indexed(s, resolved'.expiry)
          THEN /\ resolved'.result.err = ""
               /\ Elements(resolved'.result.tokens)
                    = UNION {FullTokens(s, resolved'.expiry) : s \in symbols}
          ELSE resolved'.result.err = "KiteInstrumentManagerException"
       /\ ( /\ resolved.op = "get_tokens"
            /\ resolved.criteria = NoCriteria
            /\ resolved.trading_symbols = resolved'.trading_symbols
            /\ resolved.expiry = resolved'.expiry
            /\ option_token_info' = option_token_info )
          => resolved'.result = resolved.result

\* C18: get_tokens with no criteria returns exactly the union of the full
\* token sets of the requested symbols at the given expiry, fails with a
\* not-found error if a requested symbol or its expiry is absent from the
\* index, and returns the same result when it is run again on the same inputs
\* and an unchanged index.
C18_UnfilteredTokens == [][C18_Step]_vars

\* C18 witness: get_tokens without criteria was run a second time on two
\* indexed symbols and returned all eight of their tokens
C18_Witness ==
  /\ resolved.op = "get_tokens"
  /\ resolved.run = 2
  /\ resolved.criteria = NoCriteria
  /\ resolved.trading_symbols = <<"NFO:A", "MCX:C">>
  /\ resolved.expiry = E1
  /\ resolved.result = [err |-> "", tokens |-> <<11, 12, 13, 14, 15, 16, 21, 22>>]

\* the strikes of the equity-options symbol NFO:A at an expiry
StrikesOfA(expiry) ==
  {option_token_info["NFO:A"][expiry][k].strike_price :
     k \in 1..Len(option_token_info["NFO:A"][expiry])}

\* the smallest strike >= spot, or the last (largest) strike if none is
ReferenceStrike(expiry, spot) ==
  IF \E strike \in StrikesOfA(expiry) : strike >= spot
  THEN CHOOSE strike \in StrikesOfA(expiry) :
         /\ strike >= spot
         /\ \A other \in StrikesOfA(expiry) : other >= spot => strike <= other
  ELSE CHOOSE strike \in StrikesOfA(expiry) : \A other \in StrikesOfA(expiry) : other <= strike

\* |reference - strike| / reference * 100 <= percentage
WithinPercentage(reference, strike, percentage) ==
  (IF reference >= strike THEN reference - strike ELSE strike - reference) * 100
    <= percentage * reference

\* a call of get_tokens with the percentage criteria that resolves NFO:A,
\* whose spot price is known, has just returned
C19_Step ==
  ( /\ resolved' # resolved
    /\ resolved'.criteria.name = "percentage"
    /\ "NFO:A" \in Elements(resolved'.trading_symbols)
    /\ resolved'.result.err = ""
    /\ HasKey(ltp, ltp_key(<<"A">>)) ) =>
    LET expiry == resolved'.expiry
        reference == ReferenceStrike(expiry, ltp[ltp_key(<<"A">>)])
        returned == Elements(resolved'.result.tokens) \cap FullTokens("NFO:A", expiry)
    IN /\ returned \subseteq FullTokens("NFO:A", expiry)
       /\ returned = {info.token : info \in
                        {info \in Elements(option_token_info["NFO:A"][expiry]) :
                           WithinPercentage(reference, info.strike_price,
                                            resolved'.criteria.value)}}

\* C19: with the percentage criteria and a known spot price for an
\* equity-options symbol, the reference strike is the smallest strike >= spot
\* (the last strike if none qualifies), a token is returned iff
\* |reference - strike| / reference * 100 <= the configured percentage, and
\* the returned tokens are a subset of the symbol's unfiltered tokens.
C19_PercentageFilter == [][C19_Step]_vars

\* the exchange prefix of a symbol: its characters before the colon
ExchangePrefix(trading_symbol) ==
  LET chars == Chars(trading_symbol)
      colon == CHOOSE i \in 1..Len(chars) :
                 chars[i] = ":" /\ \A j \in 1..(i - 1) : chars[j] # ":"
  IN SubSeq(chars, 1, colon - 1)

\* C20: with the percentage criteria, a symbol whose exchange prefix is not
\* NFO is never filtered: a call that returns holds every token the index has
\* for that symbol at the expiry, whatever the symbol's name and whatever
\* fetch_ltp has written to the ltp table.
C20_OtherExchangesUnfiltered ==
  ( /\ resolved.op = "get_tokens"
    /\ resolved.criteria.name = "percentage"
    /\ resolved.result.err = "" ) =>
    \A s \in Elements(resolved.trading_symbols) :
      ExchangePrefix(s) # NFO =>
        FullTokens(s, resolved.expiry) \subseteq Elements(resolved.result.tokens)

\* C20 witness: a percentage call resolved the symbol BFO:INFO, whose name
\* holds the letters NFO, while the ltp table held a price under NSE:INSE, and
\* returned both of its tokens
C20_Witness ==
  /\ resolved.op = "get_tokens"
  /\ resolved.criteria = Percentage(7)
  /\ resolved.trading_symbols = <<"BFO:INFO">>
  /\ resolved.expiry = E1
  /\ HasKey(ltp, ltp_key(<<"I", "N", "S", "E">>))
  /\ resolved.result = [err |-> "", tokens |-> <<31, 32>>]

\* C21: with the percentage criteria, an equity-options symbol whose
\* underlying has no price in the ltp table is not an error: a call that
\* resolves it, among indexed symbols, returns what get_tokens returns without
\* criteria, all of the symbol's tokens for the expiry.
C21_NoSpotPriceUnfiltered ==
  ( /\ resolved.op = "get_tokens"
    /\ resolved.criteria.name = "percentage"
    /\ "NFO:A" \in Elements(resolved.trading_symbols)
    /\ "NFO:Q" \notin Elements(resolved.trading_symbols)
    /\ ~HasKey(ltp, ltp_key(<<"A">>)) ) =>
    /\ resolved.result = get_tokens(option_token_info, resolved.trading_symbols,
                                    resolved.expiry)
    /\ resolved.result.err = "" =>
         FullTokens("NFO:A", resolved.expiry) \subseteq Elements(resolved.result.tokens)

\* C21 witness: a percentage call resolved NFO:A while the ltp table held no
\* price for its underlying, and returned all six tokens of the expiry
C21_Witness ==
  /\ resolved.op = "get_tokens"
  /\ resolved.criteria = Percentage(7)
  /\ resolved.trading_symbols = <<"NFO:A">>
  /\ resolved.expiry = E1
  /\ ~HasKey(ltp, ltp_key(<<"A">>))
  /\ resolved.result = [err |-> "", tokens |-> <<11, 12, 13, 14, 15, 16>>]

(***************************************************************************)
(* SortSpec: process_instruments on the catalogs that hold the same option *)
(* records in every order, on a store that starts empty.                   *)
(***************************************************************************)
SortRecords ==
  {Item(4, "A", "NFO-OPT", E1, 110, "PE"), Item(2, "A", "NFO-OPT", E1, 100, "PE"),
   Item(1, "A", "NFO-OPT", E1, 100, "CE"), Item(3, "A", "NFO-OPT", E1, 105, "CE"),
   Item(6, "A", "NFO-OPT", E1, 105, "PE")}

\* the catalogs with every record of SortRecords once, in every order
SortCatalogs ==
  {c \in [1..Cardinality(SortRecords) -> SortRecords] :
     \A i, j \in 1..Cardinality(SortRecords) : c[i] = c[j] => i = j}

SortInit == IndexInit /\ DOMAIN option_token_info = {}

SortNext ==
  \/ \E instruments \in SortCatalogs : process_instruments_begin(instruments)
  \/ process_instruments_delete_expiry
  \/ process_instruments_sadd
  \/ process_instruments_delete_info
  \/ process_instruments_hset

SortSpec == SortInit /\ [][SortNext]_vars

(***************************************************************************)
(* Properties of process_instruments (specifications SortSpec, IndexSpec). *)
(***************************************************************************)
\* C22: every instrument list stored in option_token_info is ordered by
\* non-decreasing strike price, and among instruments of equal strike every
\* call (CE) precedes every put (PE), for every order of the catalog.
C22_ListsSortedByStrike ==
  \A key \in DOMAIN option_token_info :
    \A expiry \in DOMAIN option_token_info[key] :
      LET list == option_token_info[key][expiry]
      IN \A i, j \in 1..Len(list) :
           i < j =>
             /\ list[i].strike_price <= list[j].strike_price
             /\ list[i].strike_price = list[j].strike_price =>
                  ~(list[i].instrument_type = "PE" /\ list[j].instrument_type = "CE")

\* C22 witness: a refresh has stored the five options of a catalog that
\* began with the highest strike and had a put before the call of its strike
C22_Witness ==
  /\ refresh.pc = "done"
  /\ refresh.count = 1
  /\ refresh.instruments[1].strike = 110
  /\ refresh.instruments[2] = Item(2, "A", "NFO-OPT", E1, 100, "PE")
  /\ refresh.instruments[3] = Item(1, "A", "NFO-OPT", E1, 100, "CE")
  /\ HasKey(option_token_info, "NFO:A")
  /\ Len(option_token_info["NFO:A"][E1]) = 5

\* C23: a completed refresh fully replaces the index and is idempotent: when
\* process_instruments has returned, option_token_info and valid_option_expiry
\* hold exactly the entries derived from the option records of its catalog,
\* no key of an earlier refresh survives, and a refresh of the catalog the
\* store was built from leaves the store as it was.
C23_RefreshReplacesIndex ==
  (refresh.pc = "done" /\ refresh.count > 0) =>
    /\ option_token_info = IndexOf(refresh.instruments)
    /\ valid_option_expiry = ValidExpiry(refresh.instruments)
    /\ DOMAIN option_token_info
         = {SymbolKey(OptionItems(refresh.instruments)[k]) :
              k \in 1..Len(OptionItems(refresh.instruments))}
    /\ index_before.option_token_info = IndexOf(refresh.instruments) =>
         option_token_info = index_before.option_token_info

\* C23 witness: a second refresh, of today's catalog, has completed on a
\* store that held yesterday's symbol Z and expiry, and neither is left
C23_Witness ==
  /\ refresh.pc = "done"
  /\ refresh.count = 2
  /\ refresh.instruments = CatalogToday
  /\ HasKey(index_before.option_token_info, "NFO:Z")
  /\ E0 \in index_before.valid_option_expiry
  /\ ~HasKey(option_token_info, "NFO:Z")
  /\ E0 \notin valid_option_expiry

(***************************************************************************)
(* ConnectSpec: the session of every worker of a stream that is started on *)
(* four tokens.  on_connect runs once in each process that kws.connect     *)
(* runs in, the replacements that fix_processes starts included; a call on *)
(* the kws is [gen, op, mode, tokens], gen the process that made it.       *)
(***************************************************************************)
ConnectSymbols == <<"NFO:A">>

\* a ticker that was handed every token of the stream
ticker_all_tokens(entry) == self.all_tokens

\* line 37: self.tokens, the slice OptionChainTicker was constructed with
ticker_tokens(entry) == entry.tokens

\* the calls made so far on the kws of entry i
CallsOf(i) == IF HasKey(ws_calls, i) THEN ws_calls[i] ELSE <<>>

\* on_connect, subscribe lines 50-52: ws.subscribe(self.tokens)
on_connect_subscribe(i) ==
  /\ i \in 1..Len(procs)
  /\ procs[i].alive
  /\ \A k \in 1..Len(CallsOf(i)) : CallsOf(i)[k].gen # procs[i].gen
  /\ ws_calls' = HSet(ws_calls, i,
                      Append(CallsOf(i), [gen |-> procs[i].gen, op |-> "subscribe",
                                          mode |-> "", tokens |-> ticker_tokens(procs[i])]))
  /\ UNCHANGED <<storeVars, streamVars, tickVars, indexVars, chainVars, tokenVars,
                 configVars>>

\* subscribe, lines 53-55: ws.set_mode(ws.MODE_FULL, self.tokens)
on_connect_set_mode(i) ==
  /\ i \in 1..Len(procs)
  /\ procs[i].alive
  /\ CallsOf(i) # <<>>
  /\ CallsOf(i)[Len(CallsOf(i))].gen = procs[i].gen
  /\ CallsOf(i)[Len(CallsOf(i))].op = "subscribe"
  /\ ws_calls' = HSet(ws_calls, i,
                      Append(CallsOf(i), [gen |-> procs[i].gen, op |-> "set_mode",
                                          mode |-> MODE_FULL,
                                          tokens |-> ticker_tokens(procs[i])]))
  /\ UNCHANGED <<storeVars, streamVars, tickVars, indexVars, chainVars, tokenVars,
                 configVars>>

\* a stream constructed on ConnectSymbols, before start()
ConnectInit ==
  /\ ticks = <<>>
  /\ option_token_info = CatalogIndex
  /\ valid_option_expiry = CatalogExpiries
  /\ index_before = [option_token_info |-> CatalogIndex,
                     valid_option_expiry |-> CatalogExpiries]
  /\ option_chain = <<>>
  /\ args = [trading_symbols |-> ConnectSymbols, secrets |-> "ok", expiry |-> E1,
             max_connections |-> MAX_WEBSOCKET_CONNECTIONS, threaded |-> TRUE]
  /\ self = [trading_symbols |-> ConnectSymbols, expiry |-> E1,
             max_connections |-> MAX_WEBSOCKET_CONNECTIONS,
             all_tokens |-> get_tokens(CatalogIndex, ConnectSymbols, E1).tokens,
             error |-> ""]
  /\ caller_pc = "constructed"
  /\ procs = <<>>
  /\ sup_i = 1
  /\ all_process_running = TRUE
  /\ healthy_log = {}
  /\ agg_thread = "none"
  /\ sup_thread = "none"
  /\ terminations = 0
  /\ batches = <<>>
  /\ thread_pos = <<>>
  /\ ws_state = "running"
  /\ refresh = NoRefresh
  /\ observed = NoRead
  /\ last_call = NoCall
  /\ fetched = NoFetch
  /\ ltp = <<>>
  /\ resolved = NoResolve
  /\ ws_calls = <<>>
  /\ option_chain_config = NoConfig
  /\ today = 1
  /\ checked = NoCheck
  /\ agg_pass = NoPass

ConnectNext ==
  \/ start
  \/ fix_processes_sleep
  \/ fix_processes_check
  \/ fix_processes_end
  \/ \E i \in 1..Len(procs) : on_close(i)
  \/ \E i \in 1..Len(procs) : on_connect_subscribe(i)
  \/ \E i \in 1..Len(procs) : on_connect_set_mode(i)

ConnectSpec == ConnectInit /\ [][ConnectNext]_vars

MaxChecks == 3
MaxDay == 2

\* current_time.strftime("%d-%m-%Y %H:%M:%S")
strftime(current_time) == <<current_time.date, current_time.time>>

\* datetime.strptime(last_fetch_time, '%d-%m-%Y %H:%M:%S').date()
strptime_date(last_fetch_time) == last_fetch_time[1]

\* a check that refreshes only when forced or when nothing was recorded
needs_refresh_ignoring_date(should_refresh_instruments, config, date_today) ==
  should_refresh_instruments \/ ~config.set

\* lines 275-291: whether check_refresh_instruments calls refresh_instruments
needs_refresh(should_refresh_instruments, config, date_today) ==
  IF should_refresh_instruments THEN TRUE
  ELSE IF ~config.set THEN TRUE
  ELSE date_today # strptime_date(config.instrument_last_fetch_time)

\* check_refresh_instruments(update_instruments), and, when it refreshes,
\* lines 293-294 and 25-27: the manager is constructed and fetches instruments
check_refresh_instruments(should_refresh_instruments, instruments) ==
  /\ refresh.pc \in {"done", "raised"}
  /\ checked.n < MaxChecks
  /\ LET refreshed == needs_refresh(should_refresh_instruments, option_chain_config, today)
     IN /\ checked' = [n |-> checked.n + 1,
                       should_refresh_instruments |-> should_refresh_instruments,
                       refreshed |-> refreshed]
        /\ IF refreshed
           THEN /\ refresh' = [pc |-> "save_last_fetch_time",
                               instruments |-> instruments,
                               keys |-> KeysInOrder(OptionItems(instruments), {}),
                               count |-> refresh.count + 1]
                /\ index_before' = [option_token_info |-> option_token_info,
                                    valid_option_expiry |-> valid_option_expiry]
           ELSE UNCHANGED <<refresh, index_before>>
  /\ UNCHANGED <<storeVars, observed, streamVars, tickVars, chainVars, tokenVars,
                 connectVars, option_chain_config, today>>

\* KiteInstrumentManager.__init__ line 29, save_last_fetch_time; the
\* constructor returns and process_instruments is called next
save_last_fetch_time(time) ==
  /\ refresh.pc = "save_last_fetch_time"
  /\ option_chain_config' =
       [set |-> TRUE,
        instrument_last_fetch_time |-> strftime([date |-> today, time |-> time])]
  /\ refresh' = [refresh EXCEPT !.pc = "delete_valid_option_expiry"]
  /\ UNCHANGED <<storeVars, observed, index_before, streamVars, tickVars, chainVars,
                 tokenVars, connectVars, today, checked>>

\* the refresh ends where it is: a call to kite or to the store raises, or
\* the process is stopped
refresh_fails ==
  /\ refresh.pc \notin {"done", "raised"}
  /\ refresh' = [refresh EXCEPT !.pc = "raised"]
  /\ UNCHANGED <<storeVars, observed, index_before, streamVars, tickVars, chainVars,
                 tokenVars, connectVars, option_chain_config, today, checked>>

\* midnight
next_day ==
  /\ today < MaxDay
  /\ today' = today + 1
  /\ UNCHANGED <<storeVars, indexVars, streamVars, tickVars, chainVars, tokenVars,
                 connectVars, option_chain_config, checked>>

RefreshNext ==
  \/ \E should_refresh_instruments \in BOOLEAN : \E instruments \in Catalogs :
       check_refresh_instruments(should_refresh_instruments, instruments)
  \/ \E time \in {0, 1} : save_last_fetch_time(time)
  \/ process_instruments_delete_expiry
  \/ process_instruments_sadd
  \/ process_instruments_delete_info
  \/ process_instruments_hset
  \/ refresh_fails
  \/ next_day

RefreshSpec == IndexInit /\ [][RefreshNext]_vars

(***************************************************************************)
(* Properties of the refresh check (specification RefreshSpec).            *)
(***************************************************************************)
\* a construction has just run check_refresh_instruments
C25_Step ==
  checked'.n # checked.n =>
    /\ checked'.refreshed <=>
         \/ checked'.should_refresh_instruments
         \/ ~option_chain_config.set
         \/ option_chain_config.instrument_last_fetch_time[1] # today
    /\ checked'.refreshed =>
         refresh'.count = refresh.count + 1 /\ refresh'.pc = "save_last_fetch_time"
    /\ ~checked'.refreshed =>
         UNCHANGED <<storeVars, refresh, option_chain_config>>

\* C25: at construction the instrument index is refreshed iff the forced
\* refresh flag is set, or the store holds no last-refresh record, or the
\* calendar date of the stored last-refresh time differs from today;
\* otherwise the stored index is left untouched.
C25_RefreshIffStale == [][C25_Step]_vars

\* C25 witness: after a refresh of the first day and one of the second, a
\* third construction, unforced on the second day, has left the index as it
\* was
C25_Witness ==
  /\ checked.n = 3
  /\ ~checked.should_refresh_instruments
  /\ ~checked.refreshed
  /\ today = 2
  /\ refresh.count = 2
  /\ refresh.pc = "done"
  /\ option_chain_config.set
  /\ option_chain_config.instrument_last_fetch_time[1] = 2

\* C28: the persisted last-refresh time is updated only after the index has
\* been completely rebuilt: in no reachable state, a refresh that failed part
\* way included, does the store hold a last-refresh time of today while
\* option_token_info and valid_option_expiry are not those of the catalog
\* fetched by that refresh.
C28_FetchTimeAfterRebuild ==
  (option_chain_config.set /\ option_chain_config.instrument_last_fetch_time[1] = today) =>
    /\ refresh.count > 0
    /\ option_token_info = IndexOf(refresh.instruments)
    /\ valid_option_expiry = ValidExpiry(refresh.instruments)

(***************************************************************************)
(* PassSpec: one ticker whose handle_ticks threads write tick by tick,     *)
(* beside calls of create_option_chain that read the ticks one hget at a   *)
(* time (lines 94-108) and store the chain at the end (lines 110-122).     *)
(***************************************************************************)
\* calls of create_option_chain in one run
MaxPasses == 1

\* the batches the ticker delivers as batch number n, all in full mode
PassBatches(n) ==
  {<<Tick(1, MODE_FULL, n), Tick(2, MODE_FULL, n)>>, <<Tick(2, MODE_FULL, n)>>}

\* create_option_chain, lines 59-93: the index entry is read; a symbol or
\* expiry that is not indexed is logged and the call returns
pass_begin(trading_symbol, expiry) ==
  /\ agg_pass.pc = "idle"
  /\ agg_pass.n < MaxPasses
  /\ HasKey(option_token_info, trading_symbol)
  /\ HasKey(option_token_info[trading_symbol], expiry)
  /\ option_token_info[trading_symbol][expiry] # <<>>
  /\ agg_pass' = [pc |-> "reading", n |-> agg_pass.n + 1,
                  trading_symbol |-> trading_symbol, expiry |-> expiry,
                  rest |-> option_token_info[trading_symbol][expiry],
                  base |-> get_option_chain_base(
                             Head(option_token_info[trading_symbol][expiry]), expiry),
                  map |-> <<>>]
  /\ UNCHANGED <<storeVars, streamVars, tickVars, indexVars, last_call, fetched,
                 tokenVars, connectVars, configVars>>

\* one turn of the loop of lines 94-108: the hget of the next token's tick
pass_read_tick ==
  /\ agg_pass.pc = "reading"
  /\ agg_pass.rest # <<>>
  /\ LET token_info == Head(agg_pass.rest)
     IN agg_pass' =
          IF ~HasKey(ticks, token_info.token)
          THEN [agg_pass EXCEPT !.rest = Tail(@)]
          ELSE IF ticks[token_info.token].mode # MODE_FULL
          THEN [agg_pass EXCEPT !.pc = "raised"]
          ELSE [agg_pass EXCEPT
                  !.rest = Tail(@),
                  !.map = MapSet(@, token_info.strike_price,
                                 Lower(token_info.instrument_type),
                                 get_option_detail(ticks[token_info.token]))]
  /\ UNCHANGED <<storeVars, streamVars, tickVars, indexVars, last_call, fetched,
                 tokenVars, connectVars, configVars>>

\* lines 110-122: the options are built and sorted and the chain is stored
pass_store ==
  /\ agg_pass.pc = "reading"
  /\ agg_pass.rest = <<>>
  /\ option_chain' =
       HSet(option_chain, agg_pass.trading_symbol,
            chain_record(agg_pass.base, agg_pass.expiry,
                         sorted_by_strike([k \in 1..Len(agg_pass.map) |->
                                             make_option(agg_pass.map[k])])))
  /\ agg_pass' = [agg_pass EXCEPT !.pc = "idle"]
  /\ UNCHANGED <<ticks, option_token_info, valid_option_expiry, streamVars, tickVars,
                 indexVars, last_call, fetched, tokenVars, connectVars, configVars>>

PassNext ==
  \/ \E batch \in PassBatches(Len(batches) + 1) : ticker_on_ticks(batch)
  \/ \E k \in 1..Len(batches) : handle_ticks_step(k)
  \/ pass_begin("NFO:A", E1)
  \/ pass_read_tick
  \/ pass_store

PassSpec == TickInit /\ [][PassNext]_vars

(***************************************************************************)
(* Properties of a chain built beside tick writers (specification          *)
(* PassSpec).                                                              *)
(***************************************************************************)
\* the tick payloads that have been persisted so far
PersistedTicks ==
  {batches[k][j] : <<k, j>> \in
     {<<k, j>> \in (1..Len(batches)) \X (1..2) : j <= thread_pos[k]}}

\* the quote is the view of one payload that was persisted for the indexed
\* instrument of the symbol and expiry with that strike and side
QuoteOfIndexedTick(trading_symbol, expiry, strike_price, type, quote) ==
  \E tick \in PersistedTicks :
    /\ \E k \in 1..Len(option_token_info[trading_symbol][expiry]) :
         LET token_info == option_token_info[trading_symbol][expiry][k]
         IN /\ token_info.token = tick.instrument_token
            /\ token_info.strike_price = strike_price
            /\ token_info.instrument_type = type
    /\ quote.premium = tick.last_price
    /\ quote.instrument_token = tick.instrument_token

\* C26: under any interleaving of tick writers and the aggregator, every
\* call or put quote in a stored chain is derived from one complete tick
\* payload that was at some earlier point the persisted tick of the indexed
\* instrument with that strike and side.
C26_QuoteFromOnePersistedTick ==
  \A trading_symbol \in DOMAIN option_chain :
    \A expiry \in DOMAIN option_chain[trading_symbol].expiry :
      LET options == option_chain[trading_symbol].expiry[expiry]
      IN \A k \in 1..Len(options) :
           /\ "ce" \in DOMAIN options[k] =>
                QuoteOfIndexedTick(trading_symbol, expiry, options[k].strike_price,
                                   "CE", options[k].ce)
           /\ "pe" \in DOMAIN options[k] =>
                QuoteOfIndexedTick(trading_symbol, expiry, options[k].strike_price,
                                   "PE", options[k].pe)

\* C26 witness: a stored chain whose call of strike 100 is the tick of the
\* second batch and whose put is the tick of the first
C26_Witness ==
  /\ HasKey(option_chain, "NFO:A")
  /\ option_chain["NFO:A"].expiry[E1]
       = << [strike_price |-> 100,
             ce |-> [premium |-> 2, instrument_token |-> 1],
             pe |-> [premium |-> 1, instrument_token |-> 2]] >>

(***************************************************************************)
(* Properties of the ticks table (specification TickSpec).                 *)
(***************************************************************************)
\* C27: no tick whose mode is not full is ever written to the ticks table,
\* for every composition of an incoming batch, batches that mix full-mode and
\* other ticks included.
C27_OnlyFullTicksStored ==
  \A token \in DOMAIN ticks : ticks[token].mode = MODE_FULL

(***************************************************************************)
(* Properties of the supervision loop (specification Spec).                *)
(***************************************************************************)
\* a step of the program seen from the map of worker processes
C29_Step ==
  /\ caller_pc # "constructed" => Len(procs') = Len(procs)
  /\ caller_pc = "constructed" =>
       Len(procs') = (IF self'.max_connections <= 0 THEN 0 ELSE self'.max_connections)
  /\ \A i \in 1..Len(procs) :
       (i <= Len(procs') /\ procs'[i].gen # procs[i].gen) =>
         /\ caller_pc = "fix_check"
         /\ sup_i = i
         /\ ~procs[i].alive
         /\ procs'[i] = replacement(procs[i])

\* C29: each slot (token slice) has at most one live worker: the supervisor
\* starts a replacement for a slot only when the slot's current worker is not
\* alive, and the number of slots stays equal to the number of workers
\* launched by start().
C29_OneLiveWorkerPerSlot == [][C29_Step]_vars

C29_Witness ==
  /\ Len(procs) >= 2
  /\ \E i \in 1..Len(procs) : procs[i].gen >= 1 /\ procs[i].alive
  /\ \E j \in 1..Len(procs) : procs[j].gen = 0 /\ procs[j].alive

\* the return of fix_processes: the step that ends the final pass
C30_Step ==
  (caller_pc = "fix_check" /\ caller_pc' = "fix_returned") =>
    \A i \in 1..Len(procs') : procs'[i].alive

\* C30: at the moment the supervision loop (fix_processes) returns, every
\* worker is alive simultaneously, for every interleaving of worker
\* terminations with the per-worker liveness checks of the final pass.
C30_AllAliveAtReturn == [][C30_Step]_vars

====
